---------------------------- MODULE Spec2Model ----------------------------
(***************************************************************************)
(* Model of github.com/actanonv/server: the route registry with its mount  *)
(* lifecycle and named-route index, and the per-request handler adapter    *)
(* with the Context's error dispatch.                                      *)
(*                                                                         *)
(* Go strings are sequences of one-character strings, so that the pattern  *)
(* grammar, strings.ToLower, strings.ReplaceAll and path.Join are computed *)
(* character by character as the code computes them.                       *)
(***************************************************************************)
EXTENDS Integers, Sequences, FiniteSets, TLC

VARIABLES
    routes,        \* Server.routes: sequence of Route{Match, Handler, Name}
    routeNames,    \* Server.routeNames: lower-cased name -> host+path
    routeMounted,  \* Server.routeMounted
    mux,           \* Server.mux: top-level patterns and the mounted root tree
    serving,       \* Run() reached ListenAndServe
    crashed,       \* a setup panic aborted the program ("" while running)
    last,          \* the last registry operation with its arguments and result
    req,           \* the request being served by the handler adapter
    pc,            \* position of HandlerFunc.ServeHTTP for that request
    errSet,        \* HandlerContext.errSet
    resp,          \* the response: WriteHeader calls, headers, body, trigger
    rlast,         \* the last Context or adapter operation with its result
    nops,          \* number of Context operations issued for the request
    chainC,        \* the Chain a handler is built from
    chainH,        \* the handler Chain.Then returned
    chainStack,    \* the ServeHTTP calls in progress on that handler
    chainTrace,    \* who got control, in order
    conns,         \* the requests in flight through a middleware, one record each
    issued         \* the request IDs uuid.New has handed out, in order

regVars == <<routes, routeNames, routeMounted, mux, serving, crashed, last>>
reqVars == <<req, pc, errSet, resp, rlast, nops>>
chainVars == <<chainC, chainH, chainStack, chainTrace>>
mwVars == <<conns, issued>>
vars == <<routes, routeNames, routeMounted, mux, serving, crashed, last,
          req, pc, errSet, resp, rlast, nops,
          chainC, chainH, chainStack, chainTrace,
          conns, issued>>

-----------------------------------------------------------------------------
(* Strings *)

Empty == <<>>

UpperLetters ==
    <<"A", "B", "C", "D", "E", "F", "G", "H", "I", "J", "K", "L", "M",
      "N", "O", "P", "Q", "R", "S", "T", "U", "V", "W", "X", "Y", "Z">>

LowerLetters ==
    <<"a", "b", "c", "d", "e", "f", "g", "h", "i", "j", "k", "l", "m",
      "n", "o", "p", "q", "r", "s", "t", "u", "v", "w", "x", "y", "z">>

Digits == {"0", "1", "2", "3", "4", "5", "6", "7", "8", "9"}

Range(f) == {f[i] : i \in DOMAIN f}

\* the lower-case letter of every upper-case letter
LowerOf == [c \in Range(UpperLetters) |->
               LowerLetters[CHOOSE i \in DOMAIN UpperLetters : UpperLetters[i] = c]]

\* unicode.ToLower on one character
ToLowerChar(c) == IF c \in DOMAIN LowerOf THEN LowerOf[c] ELSE c

\* strings.ToLower
ToLower(s) == [i \in 1..Len(s) |-> ToLowerChar(s[i])]

\* regexp class \w
WordChars == Range(UpperLetters) \cup Range(LowerLetters) \cup Digits \cup {"_"}

IsWordChar(c) == c \in WordChars

\* regexp class \s
IsSpaceChar(c) == c \in {" ", "\t", "\n", "\r", "\f"}

\* regexp class [^/ ]
IsHostChar(c) == c \notin {"/", " "}

\* first index >= from whose character is not a word character (Len+1 if none)
RECURSIVE WordEnd(_, _)
WordEnd(s, from) ==
    IF from > Len(s) \/ ~IsWordChar(s[from]) THEN from ELSE WordEnd(s, from + 1)

RECURSIVE SpaceEnd(_, _)
SpaceEnd(s, from) ==
    IF from > Len(s) \/ ~IsSpaceChar(s[from]) THEN from ELSE SpaceEnd(s, from + 1)

RECURSIVE HostEnd(_, _)
HostEnd(s, from) ==
    IF from > Len(s) \/ ~IsHostChar(s[from]) THEN from ELSE HostEnd(s, from + 1)

\* first index >= from of s holding one of chars, 0 if none
RECURSIVE IndexFrom(_, _, _)
IndexFrom(s, chars, from) ==
    IF from > Len(s) THEN 0
    ELSE IF s[from] \in chars THEN from
    ELSE IndexFrom(s, chars, from + 1)

\* strings.IndexAny
IndexAny(s, chars) == IndexFrom(s, chars, 1)

HasPrefix(s, p) == Len(p) <= Len(s) /\ SubSeq(s, 1, Len(p)) = p

HasSuffix(s, p) == Len(p) <= Len(s) /\ SubSeq(s, Len(s) - Len(p) + 1, Len(s)) = p

\* strings.ReplaceAll for a non-empty old: non-overlapping, left to right
RECURSIVE ReplaceAll(_, _, _)
ReplaceAll(s, old, new) ==
    IF Len(s) < Len(old) \/ old = Empty THEN s
    ELSE IF SubSeq(s, 1, Len(old)) = old
         THEN new \o ReplaceAll(SubSeq(s, Len(old) + 1, Len(s)), old, new)
         ELSE <<s[1]>> \o ReplaceAll(Tail(s), old, new)

\* strings.Split(s, "/")
RECURSIVE SplitSlash(_)
SplitAt(s, cut) ==
    IF cut = 0 THEN <<s>>
    ELSE <<SubSeq(s, 1, cut - 1)>> \o SplitSlash(SubSeq(s, cut + 1, Len(s)))

SplitSlash(s) == SplitAt(s, IndexAny(s, {"/"}))

RECURSIVE JoinSlash(_)
JoinSlash(segs) ==
    IF segs = <<>> THEN Empty
    ELSE IF Len(segs) = 1 THEN segs[1]
    ELSE segs[1] \o <<"/">> \o JoinSlash(Tail(segs))

\* the segment stack of path.Clean: "" and "." dropped, ".." pops
RECURSIVE CleanSegs(_, _, _)
CleanSegs(segs, stack, rooted) ==
    IF segs = <<>> THEN stack
    ELSE LET s == segs[1]
             next == IF s = Empty \/ s = <<".">> THEN stack
                     ELSE IF s = <<".", ".">>
                          THEN IF stack # <<>> /\ stack[Len(stack)] # <<".", ".">>
                               THEN SubSeq(stack, 1, Len(stack) - 1)
                               ELSE IF rooted THEN stack ELSE Append(stack, s)
                          ELSE Append(stack, s)
         IN  CleanSegs(Tail(segs), next, rooted)

\* path.Clean
Clean(p) ==
    IF p = Empty THEN <<".">>
    ELSE LET rooted == p[1] = "/"
             body == JoinSlash(CleanSegs(SplitSlash(p), <<>>, rooted))
         IN  IF rooted THEN <<"/">> \o body
             ELSE IF body = Empty THEN <<".">> ELSE body

\* path.Join of two elements: empty elements are ignored, the rest cleaned
PathJoin(a, b) ==
    IF a = Empty /\ b = Empty THEN Empty
    ELSE IF a = Empty THEN Clean(b)
    ELSE IF b = Empty THEN Clean(a)
    ELSE Clean(a \o <<"/">> \o b)

-----------------------------------------------------------------------------
(* Pattern parser and named-route index *)

NoParts == [method |-> Empty, name |-> Empty, path |-> Empty]

\* rePattern = ^(?:(\w+)\s+)?([^/ ]+)?(/.*)?$ applied by FindStringSubmatch.
\* The optional method group is taken whenever a word run followed by white
\* space starts the pattern; the host run then has to end at the end of the
\* pattern or at a "/", and "." does not match a newline.

\* length of the method token at w, the end of the word run that starts the
\* pattern: the run is a method token if white space follows it
MethodAt(pattern, w) ==
    IF w > 1 /\ SpaceEnd(pattern, w) > w THEN w - 1 ELSE 0

MethodLen(pattern) == MethodAt(pattern, WordEnd(pattern, 1))

\* where the host group starts: past the method token and its white space
HostStart(pattern, mlen) == IF mlen > 0 THEN SpaceEnd(pattern, mlen + 1) ELSE 1

\* the submatches once the method token (mlen), the start of the host run
\* and its end h are known
PartsFrom(pattern, mlen, start, h) ==
    IF \/ h > Len(pattern)
       \/ /\ pattern[h] = "/"
          /\ \A j \in h..Len(pattern) : pattern[j] # "\n"
    THEN [method |-> SubSeq(pattern, 1, mlen),
          name   |-> SubSeq(pattern, start, h - 1),
          path   |-> SubSeq(pattern, h, Len(pattern))]
    ELSE NoParts

PartsAt(pattern, mlen, start) ==
    PartsFrom(pattern, mlen, start, HostEnd(pattern, start))

PatternParts(pattern) ==
    PartsAt(pattern, MethodLen(pattern), HostStart(pattern, MethodLen(pattern)))

\* an index that takes an entry for every pattern, split or not
IndexEntryAlways(names, key, parts) == (key :> (parts.name \o parts.path)) @@ names

\* the index with the entry addRouteName stores for a pattern split into
\* parts: the host run followed by the path, nothing if both are empty
IndexEntry(names, key, parts) ==
    IF parts.name = Empty /\ parts.path = Empty THEN names
    ELSE (key :> (parts.name \o parts.path)) @@ names

\* Server.addRouteName: the new index
addRouteName(names, name, pattern) ==
    IndexEntry(names, ToLower(name), PatternParts(pattern))

\* the pairs applied from the last to the first
RECURSIVE SubstituteBackwards(_, _)
SubstituteBackwards(route, params) ==
    IF Len(params) < 2 THEN route
    ELSE ReplaceAll(SubstituteBackwards(route, SubSeq(params, 3, Len(params))),
                    <<"{">> \o params[1] \o <<"}">>, params[2])

\* the substitution loop of RouteName over the balanced params
RECURSIVE Substitute(_, _)
Substitute(route, params) ==
    IF Len(params) < 2 THEN route
    ELSE Substitute(ReplaceAll(route, <<"{">> \o params[1] \o <<"}">>, params[2]),
                    SubSeq(params, 3, Len(params)))

\* the params as the caller gave them
BalancedNever(params) == params

\* an odd-length params list gets one empty string appended
Balanced(params) == IF Len(params) % 2 # 0 THEN Append(params, Empty) ELSE params

\* a lookup with the name as given
RouteNameKeepCase(names, name, params) ==
    IF name \notin DOMAIN names THEN Empty
    ELSE Substitute(names[name], Balanced(params))

\* Server.RouteName
RouteName(names, name, params) ==
    IF ToLower(name) \notin DOMAIN names THEN Empty
    ELSE Substitute(names[ToLower(name)], Balanced(params))

-----------------------------------------------------------------------------
(* http.ServeMux as the registry uses it *)

\* strings.TrimLeft(s, " \t")
RECURSIVE TrimLeftBlank(_)
TrimLeftBlank(s) ==
    IF s # Empty /\ s[1] \in {" ", "\t"} THEN TrimLeftBlank(Tail(s)) ELSE s

\* method and rest of a pattern cut at its first space or tab (0: none)
MuxCut(pattern, cut) ==
    IF cut = 0 THEN [method |-> Empty, rest |-> pattern]
    ELSE [method |-> SubSeq(pattern, 1, cut - 1),
          rest   |-> TrimLeftBlank(SubSeq(pattern, cut + 1, Len(pattern)))]

\* host and path of the rest cut at its first "/" (0: none)
MuxHostPath(method, rest, slash) ==
    [valid  |-> slash # 0 /\ \A j \in 1..Len(method) : IsWordChar(method[j]),
     method |-> method,
     host   |-> IF slash = 0 THEN rest ELSE SubSeq(rest, 1, slash - 1),
     path   |-> IF slash = 0 THEN Empty ELSE SubSeq(rest, slash, Len(rest))]

MuxSplit(c) == MuxHostPath(c.method, c.rest, IndexAny(c.rest, {"/"}))

\* http.ServeMux splits a pattern at the first space or tab into method and
\* rest, the rest at its first "/" into host and path.
MuxParse(pattern) == MuxSplit(MuxCut(pattern, IndexAny(pattern, {" ", "\t"})))

Patterns(table) == {table[i].Match : i \in DOMAIN table}

\* ServeMux.Handle panics on a pattern it cannot parse and on a pattern that
\* is already registered.
MuxAccepts(table, pattern) ==
    MuxParse(pattern).valid /\ pattern \notin Patterns(table)

IsWildcard(seg) == Len(seg) >= 2 /\ seg[1] = "{" /\ seg[Len(seg)] = "}"

\* pattern segments against request segments; a trailing empty pattern
\* segment is a subtree pattern
RECURSIVE SegsMatch(_, _)
SegsMatch(ps, rs) ==
    IF ps = <<>> THEN rs = <<>>
    ELSE IF Len(ps) = 1 /\ ps[1] = Empty THEN rs # <<>>
    ELSE IF rs = <<>> THEN FALSE
    ELSE /\ \/ ps[1] = rs[1]
            \/ IsWildcard(ps[1]) /\ rs[1] # Empty
         /\ SegsMatch(Tail(ps), Tail(rs))

PathMatches(patPath, reqPath) ==
    SegsMatch(Tail(SplitSlash(patPath)), Tail(SplitSlash(reqPath)))

MatchesParsed(p, method, host, urlPath) ==
    /\ p.method = Empty \/ p.method = method
    /\ p.host = Empty \/ p.host = host
    /\ PathMatches(p.path, urlPath)

Matches(pattern, method, host, urlPath) ==
    MatchesParsed(MuxParse(pattern), method, host, urlPath)

\* more literal segments, then more wildcard segments, then a method, make a
\* pattern more specific
RankSegs(p, segs) ==
    100 * Cardinality({i \in DOMAIN segs : segs[i] # Empty /\ ~IsWildcard(segs[i])})
    + 10 * Cardinality({i \in DOMAIN segs : IsWildcard(segs[i])})
    + (IF p.host # Empty THEN 2 ELSE 0)
    + (IF p.method # Empty THEN 1 ELSE 0)

RankParsed(p) == RankSegs(p, Tail(SplitSlash(p.path)))

Rank(pattern) == RankParsed(MuxParse(pattern))

\* the entry of the table ServeMux picks for a request, 0 if none matches
MostSpecific(table, hit) ==
    IF hit = {} THEN 0
    ELSE CHOOSE i \in hit : \A j \in hit \ {i} :
             \/ Rank(table[i].Match) > Rank(table[j].Match)
             \/ Rank(table[i].Match) = Rank(table[j].Match) /\ i < j

MuxFind(table, method, host, urlPath) ==
    MostSpecific(table,
                 {i \in DOMAIN table : Matches(table[i].Match, method, host, urlPath)})

NoHandler == "none"

\* ServeMux.ServeHTTP on one tree: the handler of the most specific matching
\* pattern, else a redirect to the subtree pattern path+"/", else 405 when
\* the path is registered for another method, else 404
MuxMiss(table, method, host, urlPath) ==
    IF /\ ~HasSuffix(urlPath, <<"/">>)
       /\ MuxFind(table, method, host, urlPath \o <<"/">>) # 0
    THEN 301
    ELSE IF \E k \in DOMAIN table :
                /\ MuxParse(table[k].Match).method # Empty
                /\ Matches(table[k].Match, MuxParse(table[k].Match).method, host, urlPath)
         THEN 405
         ELSE 404

MuxAnswer(table, method, host, urlPath, i) ==
    IF i # 0 THEN [status |-> 200, entry |-> i]
    ELSE [status |-> MuxMiss(table, method, host, urlPath), entry |-> 0]

MuxServe(table, method, host, urlPath) ==
    MuxAnswer(table, method, host, urlPath, MuxFind(table, method, host, urlPath))

-----------------------------------------------------------------------------
(* Route registry *)

sPublic == <<"/", "p", "u", "b", "l", "i", "c", "/">>
sRoot == <<"/">>

\* Server.Middleware of the root server, as given in Options
ServerMiddleware == <<"recovery", "requestID">>

FnHandler(id, mw) ==
    [kind |-> "fn", id |-> id, mw |-> mw, strip |-> Empty, sub |-> <<>>]

\* http.StripPrefix(sPattern, Chain(sub.Middleware).Then(grp))
GroupHandler(sPattern, mw, grp) ==
    [kind |-> "group", id |-> "group", mw |-> mw, strip |-> sPattern, sub |-> grp]

NewRoute(pattern, handler, name) ==
    [Match |-> pattern, Handler |-> handler, Name |-> name]

\* Handle that appends whether or not the routes are mounted
HandleNoGuard(rs, mounted, r) ==
    [routes |-> Append(rs, r), mounted |-> mounted,
     note |-> IF mounted THEN "dropped" ELSE "added"]

\* Handle that accepts a late route and asks for a new mount
HandleRemount(rs, mounted, r) ==
    [routes |-> Append(rs, r), mounted |-> FALSE,
     note |-> IF mounted THEN "dropped" ELSE "added"]

\* Server.Handle after the options are applied: the route is dropped with a
\* warning once the routes are mounted, appended otherwise
HandleResult(rs, mounted, r) ==
    IF mounted
    THEN [routes |-> rs, mounted |-> mounted, note |-> "dropped"]
    ELSE [routes |-> Append(rs, r), mounted |-> mounted, note |-> "added"]

\* the loop of Route over s.routes: each route enters the root tree and, if
\* named, the name index; ServeMux.Handle may panic and stop the loop
RECURSIVE RootLoop(_, _, _)
RootLoop(rs, table, names) ==
    IF rs = <<>> THEN [table |-> table, names |-> names, panic |-> FALSE]
    ELSE IF ~MuxAccepts(table, rs[1].Match)
         THEN [table |-> table, names |-> names, panic |-> TRUE]
         ELSE RootLoop(Tail(rs), Append(table, rs[1]),
                       IF rs[1].Name # Empty
                       THEN addRouteName(names, rs[1].Name, rs[1].Match)
                       ELSE names)

\* the end of Route: a loop that panicked leaves "/public/" registered and
\* the names added so far; otherwise the root tree is mounted at "/" behind
\* the server's middleware and routeMounted is set
Mounted(names, mounted, m, loop) ==
    IF loop.panic
    THEN [names |-> loop.names, mounted |-> mounted,
          mux |-> [m EXCEPT !.top = Append(m.top, sPublic)], note |-> "panic"]
    ELSE [names |-> loop.names, mounted |-> TRUE,
          mux |-> [top |-> Append(Append(m.top, sPublic), sRoot),
                   root |-> loop.table, chain |-> ServerMiddleware],
          note |-> "nil"]

\* Server.Route past its guard: "/public/" is registered on s.mux (a panic if
\* it already is), then the routes enter the root tree and the name index
RouteMount(rs, names, mounted, m) ==
    IF sPublic \in Range(m.top)
    THEN [names |-> names, mounted |-> mounted, mux |-> m, note |-> "panic"]
    ELSE Mounted(names, mounted, m, RootLoop(rs, <<>>, names))

\* Route that mounts on every call
RouteUnguarded(rs, names, mounted, m) == RouteMount(rs, names, mounted, m)

\* Server.Route: a second call returns nil at once
RouteResult(rs, names, mounted, m) ==
    IF mounted
    THEN [names |-> names, mounted |-> mounted, mux |-> m, note |-> "nil"]
    ELSE RouteMount(rs, names, mounted, m)

\* a Group loop that leaves the names of the sub-routes to the mount
GroupLoopUnnamed(sub, grp, names, named, pattern, name) ==
    [grp |-> grp \o sub, names |-> names,
     named |-> \E k \in DOMAIN sub : sub[k].Name # Empty, panic |-> FALSE]

\* the loop of Group over sub.routes: each sub-route enters the group tree
\* and, if named, the parent's name index under "<name>/<subname>" with the
\* path path.Join(pattern, r.Match)
RECURSIVE GroupLoop(_, _, _, _, _, _)
GroupLoop(sub, grp, names, named, pattern, name) ==
    IF sub = <<>>
    THEN [grp |-> grp, names |-> names, named |-> named, panic |-> FALSE]
    ELSE IF ~MuxAccepts(grp, sub[1].Match)
         THEN [grp |-> grp, names |-> names, named |-> named, panic |-> TRUE]
         ELSE IF sub[1].Name # Empty
              THEN GroupLoop(Tail(sub), Append(grp, sub[1]),
                             addRouteName(names, name \o <<"/">> \o sub[1].Name,
                                          PathJoin(pattern, sub[1].Match)),
                             TRUE, pattern, name)
              ELSE GroupLoop(Tail(sub), Append(grp, sub[1]), names, named,
                             pattern, name)

\* pattern with one "/" at its end
WithSlash(pattern) ==
    IF HasSuffix(pattern, <<"/">>) THEN pattern ELSE pattern \o <<"/">>

\* the tail of Group without the check on the group name
GroupMountUnchecked(rs, mounted, name, subMw, loop, pat, h) ==
    IF loop.panic
    THEN [routes |-> rs, names |-> loop.names, mounted |-> mounted,
          note |-> "panic"]
    ELSE [routes |-> h.routes, names |-> loop.names, mounted |-> h.mounted,
          note |-> h.note]

\* the tail of Group: the check on the group name, then s.Handle of the
\* group's tree under pattern+"/" with the prefix stripped
GroupMount(rs, mounted, name, subMw, loop, pat, h) ==
    IF loop.panic \/ (loop.named /\ name = Empty)
    THEN [routes |-> rs, names |-> loop.names, mounted |-> mounted,
          note |-> "panic"]
    ELSE [routes |-> h.routes, names |-> loop.names, mounted |-> h.mounted,
          note |-> h.note]

\* s.Handle(pattern, http.StripPrefix(sPattern, mwChain.Then(grp)))
GroupHandle(rs, mounted, name, subMw, loop, pat) ==
    GroupMount(rs, mounted, name, subMw, loop, pat,
               HandleResult(rs, mounted,
                            NewRoute(pat, GroupHandler(SubSeq(pat, 1, Len(pat) - 1),
                                                       subMw, loop.grp),
                                     Empty)))

\* Server.Group, after the builder callback has filled the sub-registry with
\* the middleware subMw and the routes sub
GroupResult(rs, names, mounted, pattern, name, subMw, sub) ==
    GroupHandle(rs, mounted, name, subMw,
                GroupLoop(sub, <<>>, names, FALSE, pattern, name),
                WithSlash(pattern))

TrimPrefix(s, p) == IF HasPrefix(s, p) THEN SubSeq(s, Len(p) + 1, Len(s)) ELSE s

\* http.StripPrefix: not-found unless the prefix was there to strip, else
\* the answer of the group's own tree for the stripped path p
GroupServe(h, urlPath, p, inner) ==
    IF Len(p) >= Len(urlPath) THEN [status |-> 404, handler |-> NoHandler]
    ELSE IF inner.entry = 0
         THEN [status |-> inner.status, handler |-> NoHandler]
         ELSE [status |-> 200, handler |-> h.sub[inner.entry].Handler.id]

\* what a mounted handler answers: a HandlerFunc answers itself, a group
\* strips its prefix and serves from its own tree
HandlerServe(h, method, host, urlPath) ==
    IF h.kind = "fn" THEN [status |-> 200, handler |-> h.id]
    ELSE GroupServe(h, urlPath, TrimPrefix(urlPath, h.strip),
                    MuxServe(h.sub, method, host, TrimPrefix(urlPath, h.strip)))

\* the root tree's answer: its own miss, or the matched handler's answer
RootServe(m, method, host, urlPath, found) ==
    IF found.entry = 0 THEN [status |-> found.status, handler |-> NoHandler]
    ELSE HandlerServe(m.root[found.entry].Handler, method, host, urlPath)

\* Server.ServeHTTP: s.mux serves "/public/" from disk and everything else
\* from the root tree mounted at "/"
ServeResult(m, method, host, urlPath) ==
    IF sPublic \in Range(m.top) /\ HasPrefix(urlPath, sPublic)
    THEN [status |-> 200, handler |-> "static"]
    ELSE IF sRoot \notin Range(m.top) THEN [status |-> 404, handler |-> NoHandler]
    ELSE RootServe(m, method, host, urlPath, MuxServe(m.root, method, host, urlPath))

-----------------------------------------------------------------------------
(* The patterns, names, parameters and requests the operations are tried with *)

pUsers == <<"G", "E", "T", " ", "/", "u", "/", "{", "i", "d", "}", "/", "p">>  \* GET /u/{id}/p
pAbout == <<"/", "a">>  \* /a
pHost == <<"h", ".", "i", "o", "/", "d">>  \* h.io/d
pOther == <<"/", "o">>  \* /o
pLate == <<"/", "l">>  \* /l
pItems == <<"/", "i", "/", "{", "k", "}">>  \* /i/{k}
pItemsGet == <<"G", "E", "T", " ", "/", "i", "/", "{", "k", "}">>  \* GET /i/{k}
pPing == <<"/", "p">>  \* /p
gCatalogs == <<"/", "c">>  \* /c
gApi == <<"/", "g", "/">>  \* /g/
nCatalog == <<"c">>  \* c
nCatalogUp == <<"C">>  \* C
nItem == <<"i", "t">>  \* it
nItemUp == <<"I", "t">>  \* It
nUserProfile == <<"u", "P">>  \* uP
nAbout == <<"A", "b">>  \* Ab
nAboutUp == <<"A", "B">>  \* AB
nDocs == <<"d">>  \* d
nPing == <<"p">>  \* p
qUserProfileUp == <<"U", "P">>  \* UP
qAboutLow == <<"a", "b">>  \* ab
qCatalogItem == <<"c", "/", "i", "t">>  \* c/it
qCatalogItemMixed == <<"C", "/", "i", "T">>  \* C/iT
qMissing == <<"x">>  \* x
kItemId == <<"k">>  \* k
v1001 == <<"7">>  \* 7
kId == <<"i", "d">>  \* id
v42 == <<"4", "2">>  \* 42
vPlaceholder == <<"{", "k", "}">>  \* {k}
mGET == <<"G", "E", "T">>  \* GET
mPOST == <<"P", "O", "S", "T">>  \* POST
hExample == <<"h", ".", "i", "o">>  \* h.io
uAbout == <<"/", "a">>  \* /a
uProfile == <<"/", "u", "/", "4", "2", "/", "p">>  \* /u/42/p
uItem == <<"/", "c", "/", "i", "/", "7">>  \* /c/i/7
uLate == <<"/", "l">>  \* /l
uDocs == <<"/", "d">>  \* /d

\* Handle / HandleFunc calls: pattern, name (WithName) and middleware
\* (WithMiddleware) of the route, and the handler registered
HandleInputs ==
    { [pattern |-> pUsers, name |-> nUserProfile, id |-> "h1", mw |-> <<>>],
      [pattern |-> pAbout, name |-> nAbout,       id |-> "h2", mw |-> <<"auth">>],
      [pattern |-> pOther, name |-> nAboutUp,     id |-> "h3", mw |-> <<>>],
      [pattern |-> pHost,  name |-> nDocs,        id |-> "h4", mw |-> <<>>],
      [pattern |-> pLate,  name |-> Empty,        id |-> "h5", mw |-> <<>>] }

\* Group calls: prefix, group name, and what the builder callback registers
\* on the sub-registry
GroupInputs ==
    { [pattern |-> gCatalogs, name |-> nCatalog, mw |-> <<>>,
       sub |-> <<NewRoute(pItems, FnHandler("g1", <<>>), nItem)>>],
      [pattern |-> gCatalogs, name |-> nCatalogUp, mw |-> <<"audit", "gzip">>,
       sub |-> <<NewRoute(pItemsGet, FnHandler("g2", <<"auth", "csrf">>), nItemUp)>>],
      [pattern |-> gApi, name |-> Empty, mw |-> <<>>,
       sub |-> <<NewRoute(pPing, FnHandler("g3", <<>>), nPing)>>],
      [pattern |-> gApi, name |-> Empty, mw |-> <<>>,
       sub |-> <<NewRoute(pPing, FnHandler("g4", <<>>), Empty)>>],
      [pattern |-> gApi, name |-> Empty, mw |-> <<>>,
       sub |-> <<NewRoute(pPing, FnHandler("g5", <<>>), Empty),
                 NewRoute(pPing, FnHandler("g6", <<>>), Empty)>>] }

\* RouteName calls: the name as the caller spells it, and the params
Queries ==
    { [name |-> qUserProfileUp,    params |-> <<kId, v42>>],
      [name |-> qAboutLow,         params |-> <<>>],
      [name |-> nDocs,             params |-> <<>>],
      [name |-> qCatalogItemMixed, params |-> <<kItemId, v1001>>],
      [name |-> qCatalogItem,      params |-> <<>>],
      [name |-> qMissing,          params |-> <<kId, v42>>],
      [name |-> qUserProfileUp,    params |-> <<kId>>],
      [name |-> qUserProfileUp,    params |-> <<kItemId, v1001>>],
      [name |-> qUserProfileUp,    params |-> <<kId, vPlaceholder, kItemId, v1001>>] }

Requests ==
    { [method |-> mGET,  host |-> Empty,    path |-> uAbout],
      [method |-> mPOST, host |-> Empty,    path |-> uProfile],
      [method |-> mGET,  host |-> Empty,    path |-> uItem],
      [method |-> mGET,  host |-> Empty,    path |-> uLate],
      [method |-> mGET,  host |-> hExample, path |-> uDocs] }

\* Handle calls with patterns rePattern does not match: " /l", which ServeMux
\* reads as the path /l, and "a b c", which ServeMux refuses; and one with
\* the pattern /a that both take
MalformedInputs ==
    { [pattern |-> <<" ", "/", "l">>, name |-> <<"s", "p">>, id |-> "m1", mw |-> <<>>],
      [pattern |-> <<"a", " ", "b", " ", "c">>, name |-> <<"b", "a", "d">>,
       id |-> "m2", mw |-> <<>>],
      [pattern |-> pAbout, name |-> <<"o", "k">>, id |-> "m3", mw |-> <<>>] }

\* the number of routes registered before the mount
MaxRoutes == 2

\* a call record: the operation, its arguments, whether the routes were
\* mounted when it was called, and what it returned
NoCall ==
    [op |-> "none", pattern |-> Empty, name |-> Empty, params |-> <<>>,
     sub |-> <<>>, wasMounted |-> FALSE,
     ret |-> Empty, status |-> 0, note |-> "", handler |-> NoHandler]

-----------------------------------------------------------------------------
(* Registry operations *)

Running == crashed = ""

\* Init (Options.Routes empty): the fields of the new Server
InitServer ==
    /\ routes = <<>>
    /\ routeNames = <<>>
    /\ routeMounted = FALSE
    /\ mux = [top |-> <<>>, root |-> <<>>, chain |-> <<>>]
    /\ serving = FALSE
    /\ crashed = ""
    /\ last = NoCall

\* s.Handle(pattern, handler, WithName(name), WithMiddleware(mw...)); at most
\* MaxRoutes routes are registered before the mount
Handle(in) ==
    LET res == HandleResult(routes, routeMounted,
                            NewRoute(in.pattern, FnHandler(in.id, in.mw), in.name))
    IN  /\ Running
        /\ routeMounted \/ Len(routes) < MaxRoutes
        /\ routes' = res.routes
        /\ routeMounted' = res.mounted
        /\ last' = [NoCall EXCEPT !.op = "Handle", !.pattern = in.pattern,
                                  !.name = in.name, !.wasMounted = routeMounted,
                                  !.note = res.note]
        /\ UNCHANGED <<routeNames, mux, serving, crashed>>
        /\ UNCHANGED <<reqVars, chainVars, mwVars>>

\* s.Group(pattern, name, fn)
Group(in) ==
    LET res == GroupResult(routes, routeNames, routeMounted,
                           in.pattern, in.name, in.mw, in.sub)
    IN  /\ Running
        /\ routeMounted \/ Len(routes) < MaxRoutes
        /\ routes' = res.routes
        /\ routeNames' = res.names
        /\ routeMounted' = res.mounted
        /\ crashed' = IF res.note = "panic" THEN "Group" ELSE crashed
        /\ last' = [NoCall EXCEPT !.op = "Group", !.pattern = in.pattern,
                                  !.name = in.name, !.sub = in.sub,
                                  !.wasMounted = routeMounted, !.note = res.note]
        /\ UNCHANGED <<mux, serving>>
        /\ UNCHANGED <<reqVars, chainVars, mwVars>>

\* s.Route()
Route ==
    LET res == RouteResult(routes, routeNames, routeMounted, mux)
    IN  /\ Running
        /\ routeNames' = res.names
        /\ routeMounted' = res.mounted
        /\ mux' = res.mux
        /\ crashed' = IF res.note = "panic" THEN "Route" ELSE crashed
        /\ last' = [NoCall EXCEPT !.op = "Route", !.wasMounted = routeMounted,
                                  !.note = res.note]
        /\ UNCHANGED <<routes, serving>>
        /\ UNCHANGED <<reqVars, chainVars, mwVars>>

\* a Run that leaves mounting to the caller and refuses to listen before it
RunRequiresRoute(rs, names, mounted, m) ==
    [names |-> names, mounted |-> mounted, mux |-> m,
     note |-> IF mounted THEN "nil" ELSE "ErrRoutesNotMounted"]

\* the first statement of Run: if err := s.Route(); err != nil { return err }
RunRoute(rs, names, mounted, m) == RouteResult(rs, names, mounted, m)

\* s.Run(): mounts if needed, then listens
Run ==
    LET res == RunRoute(routes, routeNames, routeMounted, mux)
    IN  /\ Running
        /\ ~serving
        /\ routeNames' = res.names
        /\ routeMounted' = res.mounted
        /\ mux' = res.mux
        /\ crashed' = IF res.note = "panic" THEN "Run" ELSE crashed
        /\ serving' = (res.note = "nil")
        /\ last' = [NoCall EXCEPT !.op = "Run", !.wasMounted = routeMounted,
                                  !.note = res.note]
        /\ UNCHANGED routes
        /\ UNCHANGED <<reqVars, chainVars, mwVars>>

\* s.RouteName(name, params...)
RouteNameCall(name, params) ==
    /\ Running
    /\ last' = [NoCall EXCEPT !.op = "RouteName", !.name = name, !.params = params,
                              !.wasMounted = routeMounted,
                              !.ret = RouteName(routeNames, name, params)]
    /\ UNCHANGED <<routes, routeNames, routeMounted, mux, serving, crashed>>
    /\ UNCHANGED <<reqVars, chainVars, mwVars>>

\* s.ServeHTTP(w, r), reported by the status and the handler that answered
Dispatch(r) ==
    LET res == ServeResult(mux, r.method, r.host, r.path)
    IN  /\ Running
        /\ last' = [NoCall EXCEPT !.op = "Dispatch", !.pattern = r.path,
                                  !.name = r.method, !.params = <<r.host>>,
                                  !.wasMounted = routeMounted,
                                  !.status = res.status, !.handler = res.handler]
        /\ UNCHANGED <<routes, routeNames, routeMounted, mux, serving, crashed>>
        /\ UNCHANGED <<reqVars, chainVars, mwVars>>

-----------------------------------------------------------------------------
(* The sub-registry handed to a Group builder callback *)

\* the routeNames of the zero value &Server{}: a nil map
NilMap == "nil"

\* sub := &Server{}: no routes, a nil name index, a nil logger, a nil mux
InitSub ==
    /\ routes = <<>>
    /\ routeNames = NilMap
    /\ routeMounted = FALSE
    /\ mux = [top |-> <<>>, root |-> <<>>, chain |-> <<>>]
    /\ serving = FALSE
    /\ crashed = ""
    /\ last = NoCall

\* Server.Group on the sub-registry: for a named sub-route the loop calls
\* addRouteName, which writes to the nil map (or warns through the nil
\* logger) and panics; without named sub-routes the index is not touched
GroupOnSub(rs, mounted, pattern, name, subMw, sub) ==
    IF \E k \in DOMAIN sub : sub[k].Name # Empty
    THEN [routes |-> rs, names |-> NilMap, mounted |-> mounted, note |-> "panic"]
    ELSE [GroupResult(rs, <<>>, mounted, pattern, name, subMw, sub)
              EXCEPT !.names = NilMap]

\* srv.Group(pattern, name, fn) called inside a builder callback
SubGroup(in) ==
    /\ Running
    /\ Len(routes) < MaxRoutes
    /\ routes' = GroupOnSub(routes, routeMounted, in.pattern, in.name, in.mw, in.sub).routes
    /\ routeNames' = GroupOnSub(routes, routeMounted, in.pattern, in.name, in.mw, in.sub).names
    /\ crashed' = IF GroupOnSub(routes, routeMounted, in.pattern, in.name, in.mw,
                                in.sub).note = "panic"
                  THEN "Group" ELSE crashed
    /\ last' = [NoCall EXCEPT
                   !.op = "Group", !.pattern = in.pattern, !.name = in.name,
                   !.sub = in.sub, !.wasMounted = routeMounted,
                   !.note = GroupOnSub(routes, routeMounted, in.pattern, in.name,
                                       in.mw, in.sub).note]
    /\ UNCHANGED <<routeMounted, mux, serving>>
    /\ UNCHANGED <<reqVars, chainVars, mwVars>>

\* srv.RouteName(name, params...) inside a builder callback: the lookup in
\* the nil map finds nothing
SubRouteName(name, params) ==
    /\ Running
    /\ last' = [NoCall EXCEPT !.op = "RouteName", !.name = name, !.params = params,
                              !.wasMounted = routeMounted, !.ret = Empty]
    /\ UNCHANGED <<routes, routeNames, routeMounted, mux, serving, crashed>>
    /\ UNCHANGED <<reqVars, chainVars, mwVars>>

-----------------------------------------------------------------------------
(* Response writer and Context operations *)

StatusOK == 200
StatusSeeOther == 303
StatusNotFound == 404
StatusInternalServerError == 500

NoBody == [kind |-> "none", status |-> 0, errorType |-> ""]

\* the response as the handler left it: the WriteHeader calls in order, the
\* status that went on the wire (0: none yet), the headers set, the bodies
\* written, and the statusCode field of the logging ResponseWriter wrapper,
\* which Server.ServeHTTP starts at 200 and logs when the request is over
NewResponse ==
    [wh |-> <<>>, committed |-> 0, ctype |-> "", body |-> <<>>,
     trigger |-> "", hxRedirect |-> FALSE, location |-> FALSE,
     statusCode |-> StatusOK]

\* http.ResponseWriter.WriteHeader: every call is recorded, the first one
\* decides the status on the wire
WriteHeader(r, code) ==
    [r EXCEPT !.wh = Append(@, code),
              !.committed = IF @ = 0 THEN code ELSE @,
              !.statusCode = code]

\* http.ResponseWriter.Write: commits 200 if no status was written before
Write(r, b) ==
    [r EXCEPT !.body = Append(@, b),
              !.committed = IF @ = 0 THEN StatusOK ELSE @]

\* HandlerContext.writeContentType: only if unset
writeContentType(r, value) ==
    IF r.ctype = "" THEN [r EXCEPT !.ctype = value] ELSE r

\* http.Error(w, msg, code)
HttpError(r, code) ==
    Write(WriteHeader([r EXCEPT !.ctype = "text/plain"], code),
          [NoBody EXCEPT !.kind = "text", !.status = code])

\* HandlerContext.String
StringResult(r, code) ==
    [resp |-> Write(WriteHeader(writeContentType(r, "text/plain"), code),
                    [NoBody EXCEPT !.kind = "text", !.status = code]),
     ret |-> "nil"]

\* HandlerContext.Status
StatusResult(r, code) == [resp |-> WriteHeader(r, code), ret |-> "nil"]

\* HandlerContext.JSON for an envelope with or without an error map and the
\* errorType the caller gave ("" if unset)
JSONResult(r, status, hasError, errorType) ==
    LET et == IF hasError /\ errorType = ""
              THEN IF status >= StatusInternalServerError THEN "server" ELSE "application"
              ELSE errorType
    IN  [resp |-> Write(WriteHeader(writeContentType(r, "application/json"), status),
                        [kind |-> "json", status |-> status, errorType |-> et]),
         ret |-> "nil"]

\* Render that writes the head before the template manager has rendered
RenderStreaming(r, tpl, status, notDone) ==
    IF tpl = "nil" THEN [resp |-> r, ret |-> "ErrRendererNotProvided"]
    ELSE LET head == IF notDone THEN r
                     ELSE WriteHeader(writeContentType(r, "text/html"), status)
         IN  IF tpl = "fail" THEN [resp |-> head, ret |-> "renderError"]
             ELSE [resp |-> Write(head, [NoBody EXCEPT !.kind = "html", !.status = status]),
                   ret |-> "nil"]

\* Render that writes Content-Type and status whatever NotDone says
RenderAlwaysDone(r, tpl, status, notDone) ==
    IF tpl = "nil" THEN [resp |-> r, ret |-> "ErrRendererNotProvided"]
    ELSE IF tpl = "fail" THEN [resp |-> r, ret |-> "renderError"]
    ELSE [resp |-> Write(WriteHeader(writeContentType(r, "text/html"), status),
                         [NoBody EXCEPT !.kind = "html", !.status = status]),
          ret |-> "nil"]

\* HandlerContext.Render with the template manager absent ("nil"), failing
\* ("fail") or rendering ("ok")
RenderResult(r, tpl, status, notDone) ==
    IF tpl = "nil" THEN [resp |-> r, ret |-> "ErrRendererNotProvided"]
    ELSE IF tpl = "fail" THEN [resp |-> r, ret |-> "renderError"]
    ELSE LET head == IF notDone THEN r
                     ELSE WriteHeader(writeContentType(r, "text/html"), status)
         IN  [resp |-> Write(head, [NoBody EXCEPT !.kind = "html", !.status = status]),
              ret |-> "nil"]

\* Redirect that sends the 303 to an HX client as well
RedirectAlways(r, hx) ==
    [resp |-> Write(WriteHeader([writeContentType(r, "text/html")
                                     EXCEPT !.location = TRUE, !.hxRedirect = hx \/ @],
                                StatusSeeOther),
                    [NoBody EXCEPT !.kind = "html", !.status = StatusSeeOther]),
     ret |-> "nil"]

\* HandlerContext.Redirect
RedirectResult(r, hx) ==
    IF hx THEN [resp |-> [r EXCEPT !.hxRedirect = TRUE], ret |-> "nil"]
    ELSE [resp |-> Write(WriteHeader([writeContentType(r, "text/html")
                                          EXCEPT !.location = TRUE], StatusSeeOther),
                         [NoBody EXCEPT !.kind = "html", !.status = StatusSeeOther]),
          ret |-> "nil"]

\* Error that renders "<code>.hx" for an HX request before it sets the trigger
ErrorDispatchRenderHx(r, set, rq, code, msgIsError) ==
    IF rq.json
    THEN [resp |-> JSONResult(r, code, TRUE, "server").resp, errSet |-> TRUE,
          ret |-> JSONResult(r, code, TRUE, "server").ret]
    ELSE LET page == RenderResult(r, rq.tpl, code, FALSE)
         IN  IF page.ret # "nil"
             THEN [resp |-> page.resp, errSet |-> TRUE, ret |-> "failed to render error page"]
             ELSE [resp |-> WriteHeader(IF rq.hx
                                        THEN [page.resp EXCEPT !.trigger = "serverCtxError"]
                                        ELSE page.resp, code),
                   errSet |-> TRUE,
                   ret |-> IF msgIsError THEN "msg" ELSE "nil"]

\* HandlerContext.Error past its guard: errSet is set, then the JSON envelope
\* for a JSON request, the out-of-band trigger for an HX request, the rendered
\* "<code>.page" otherwise; the status line is written at the end of the HX
\* and page branches
ErrorDispatch(r, set, rq, code, msgIsError) ==
    IF rq.json
    THEN [resp |-> JSONResult(r, code, TRUE, "server").resp, errSet |-> TRUE,
          ret |-> JSONResult(r, code, TRUE, "server").ret]
    ELSE IF rq.hx
    THEN [resp |-> WriteHeader([r EXCEPT !.trigger = "serverCtxError"], code),
          errSet |-> TRUE,
          ret |-> IF msgIsError THEN "msg" ELSE "nil"]
    ELSE LET page == RenderResult(r, rq.tpl, code, FALSE)
         IN  IF page.ret # "nil"
             THEN [resp |-> page.resp, errSet |-> TRUE, ret |-> "failed to render error page"]
             ELSE [resp |-> WriteHeader(page.resp, code), errSet |-> TRUE,
                   ret |-> IF msgIsError THEN "msg" ELSE "nil"]

\* Error that dispatches on every call
ErrorUnguarded(r, set, rq, code, msgIsError) ==
    ErrorDispatch(r, set, rq, code, msgIsError)

\* HandlerContext.Error(statusCode, msg, args...): a logged no-op returning
\* nil once errSet is set
ErrorResult(r, set, rq, code, msgIsError) ==
    IF set THEN [resp |-> r, errSet |-> set, ret |-> "nil"]
    ELSE ErrorDispatch(r, set, rq, code, msgIsError)

-----------------------------------------------------------------------------
(* Handler adapter: HandlerFunc.ServeHTTP for one request *)

\* the number of Context operations the user handler issues
MaxOps == 2

\* what Options.ErrorFunc does with (ctx, err): absent, ctx.Error with 500,
\* ctx.Error with a status of its own, or a callback that panics
ErrorFuncs == {"none", "ctx500", "ctx404", "panic"}

\* a request: JSON-declared or not, HX or not, with or without the server in
\* its ambient context; and the server it came through
ReqConfigs ==
    [json : BOOLEAN, hx : BOOLEAN, server : BOOLEAN,
     errorFunc : ErrorFuncs, tpl : {"nil", "fail", "ok"}]

NoReq == [json |-> FALSE, hx |-> FALSE, server |-> TRUE, errorFunc |-> "none", tpl |-> "ok"]

NoOp == [op |-> "none", code |-> 0, errorCalls |-> 0, wasSet |-> FALSE, wh |-> 0, ret |-> "",
         funcCalls |-> 0, paths |-> {}, msgIsError |-> FALSE,
         notDone |-> FALSE, error |-> "nil", errorType |-> ""]

\* the arguments of a Context operation that its result is judged by: whether
\* Error's message is an error value, RenderOpt.NotDone, and the Error map
\* (nil, empty or with entries) and ErrorType of a JSONResponse
NoArgs == [msgIsError |-> FALSE, notDone |-> FALSE, error |-> "nil", errorType |-> ""]

InitRequest ==
    /\ pc = "idle"
    /\ errSet = FALSE
    /\ resp = NewResponse
    /\ rlast = NoOp
    /\ nops = 0

\* ServeHTTP up to the call of the handler: NewContext asserts the server out
\* of the request context before the deferred guard exists
Start ==
    /\ pc = "idle"
    /\ pc' = IF req.server THEN "running" ELSE "escaped"
    /\ rlast' = [NoOp EXCEPT !.op = "NewContext",
                             !.ret = IF req.server THEN "ctx" ELSE "panic"]
    /\ UNCHANGED <<req, errSet, resp, nops>>
    /\ UNCHANGED <<regVars, chainVars, mwVars>>

\* one Context operation issued by the user handler
HandlerOp(name, res, set, code, args) ==
    /\ pc = "running"
    /\ nops < MaxOps
    /\ nops' = nops + 1
    /\ resp' = res.resp
    /\ errSet' = set
    /\ rlast' = [NoOp EXCEPT !.op = name, !.code = code,
                             !.errorCalls = IF name = "Error" THEN 1 ELSE 0,
                             !.wasSet = errSet,
                             !.wh = Len(res.resp.wh) - Len(resp.wh),
                             !.ret = res.ret,
                             !.msgIsError = args.msgIsError,
                             !.notDone = args.notDone,
                             !.error = args.error,
                             !.errorType = args.errorType]
    /\ UNCHANGED <<req, pc>>
    /\ UNCHANGED <<regVars, chainVars, mwVars>>

CtxString ==
    HandlerOp("String", StringResult(resp, StatusOK), errSet, StatusOK, NoArgs)

CtxStatus ==
    HandlerOp("Status", StatusResult(resp, StatusNotFound), errSet, StatusNotFound,
              NoArgs)

\* c.JSON(status, JSONResponse{Error: ..., ErrorType: ...})
CtxJSON(status, error, errorType) ==
    HandlerOp("JSON", JSONResult(resp, status, error # "nil", errorType), errSet, status,
              [NoArgs EXCEPT !.error = error, !.errorType = errorType])

CtxRender(notDone) ==
    HandlerOp("Render", RenderResult(resp, req.tpl, StatusOK, notDone), errSet, StatusOK,
              [NoArgs EXCEPT !.notDone = notDone])

CtxRedirect ==
    HandlerOp("Redirect", RedirectResult(resp, req.hx), errSet, StatusSeeOther, NoArgs)

CtxError(code, msgIsError) ==
    LET res == ErrorResult(resp, errSet, req, code, msgIsError)
    IN  HandlerOp("Error", res, res.errSet, code,
                  [NoArgs EXCEPT !.msgIsError = msgIsError])

\* c.Trigger(): the handler sets a trigger of its own
CtxTrigger ==
    HandlerOp("Trigger", [resp |-> [resp EXCEPT !.trigger = "handler"], ret |-> "nil"],
              errSet, 0, NoArgs)

\* srv.errorFunc(ctx, err) for an errorFunc that does not panic
ErrorFuncResult(r, set, rq) ==
    ErrorResult(r, set, rq,
                IF rq.errorFunc = "ctx404" THEN StatusNotFound
                ELSE StatusInternalServerError, TRUE)

\* the branch both the deferred guard and the error path take: errorFunc if
\* configured, else http.Error with 500; funcCalls counts the calls of
\* errorFunc, escaped tells that errorFunc panicked
AdapterFail(r, set, rq) ==
    IF rq.errorFunc = "none"
    THEN [resp |-> HttpError(r, StatusInternalServerError), errSet |-> set,
          ret |-> "http.Error", escaped |-> FALSE, errorCalls |-> 0,
          funcCalls |-> 0]
    ELSE IF rq.errorFunc = "panic"
    THEN [resp |-> r, errSet |-> set, ret |-> "panic", escaped |-> TRUE,
          errorCalls |-> 0, funcCalls |-> 1]
    ELSE LET e == ErrorFuncResult(r, set, rq)
         IN  [resp |-> e.resp, errSet |-> e.errSet, ret |-> e.ret,
              escaped |-> FALSE, errorCalls |-> 1, funcCalls |-> 1]

\* the deferred guard after a panic of the error path's errorFunc: it runs
\* the same branch on what the error path left
GuardAfter(first, rq) ==
    [AdapterFail(first.resp, first.errSet, rq)
        EXCEPT !.funcCalls = @ + first.funcCalls,
               !.errorCalls = @ + first.errorCalls]

\* if err != nil { ... }: the error path, and the deferred guard behind it
\* when errorFunc panics
ErrorPath(r, set, rq) ==
    IF AdapterFail(r, set, rq).escaped
    THEN GuardAfter(AdapterFail(r, set, rq), rq)
    ELSE AdapterFail(r, set, rq)

\* the blocks of ServeHTTP an outcome went through
PathsOf(name, res) ==
    IF name = "Panic" THEN {"panic"}
    ELSE IF res.escaped THEN {"error", "panic"} ELSE {"error"}

\* err := h(ctx) returns nil
ReturnNil ==
    /\ pc = "running"
    /\ pc' = "completed"
    /\ rlast' = [NoOp EXCEPT !.op = "ReturnNil", !.wasSet = errSet]
    /\ UNCHANGED <<req, errSet, resp, nops>>
    /\ UNCHANGED <<regVars, chainVars, mwVars>>

AdapterEnd(name, endpc, res) ==
    /\ pc = "running"
    /\ pc' = IF res.escaped THEN "escaped" ELSE endpc
    /\ resp' = res.resp
    /\ errSet' = res.errSet
    /\ rlast' = [NoOp EXCEPT !.op = name, !.errorCalls = res.errorCalls,
                             !.wasSet = errSet,
                             !.wh = Len(res.resp.wh) - Len(resp.wh),
                             !.ret = res.ret, !.funcCalls = res.funcCalls,
                             !.paths = PathsOf(name, res),
                             !.msgIsError = res.funcCalls > 0]
    /\ UNCHANGED <<req, nops>>
    /\ UNCHANGED <<regVars, chainVars, mwVars>>

\* err := h(ctx) returns a non-nil error
ReturnErr == AdapterEnd("ReturnErr", "errored", ErrorPath(resp, errSet, req))

\* h(ctx) panics: the deferred guard runs
Panic == AdapterEnd("Panic", "panicked", AdapterFail(resp, errSet, req))

-----------------------------------------------------------------------------
(* Chain.Then and a request through the handler it returns *)

\* the longest Chain tried
MaxChain == 3

\* the middleware of the package: each hands the request to next.ServeHTTP
\* once and has control again when that call returns
Middlewares == {"RequestIDMiddleware", "RecoveryMiddleware",
                "RemoveTrailingSlashMiddleware"}

Chains == UNION {[1..n -> Middlewares] : n \in 0..MaxChain}

\* the handler given to Then
Terminal == [kind |-> "handler", m |-> "h", next |-> "none"]

\* c[i](h): the handler a middleware returns for next = h
Wrap(m, next) == [kind |-> "middleware", m |-> m, next |-> next]

\* the loop of Then taken from the first index to the last
RECURSIVE ThenAscending(_, _, _)
ThenAscending(c, i, h) ==
    IF i > Len(c) THEN h ELSE ThenAscending(c, i + 1, Wrap(c[i], h))

\* the wrapping order turned round
ThenInnermostFirst(c, h) == ThenAscending(c, 1, h)

\* the loop of Then: for i := len(c) - 1; i >= 0; i-- { h = c[i](h) }
RECURSIVE ThenLoop(_, _, _)
ThenLoop(c, i, h) ==
    IF i < 1 THEN h ELSE ThenLoop(c, i - 1, Wrap(c[i], h))

\* Chain.Then
Then(c, h) == ThenLoop(c, Len(c), h)

\* a ServeHTTP call in progress: the handler, and whether it has already
\* called next.ServeHTTP
Frame(h, called) == [h |-> h, called |-> called]

InitChain ==
    /\ chainC \in Chains
    /\ chainH = Then(chainC, Terminal)
    /\ chainStack = <<>>
    /\ chainTrace = <<>>

\* no handler is built from a Chain
NoChain ==
    /\ chainC = <<>>
    /\ chainH = Terminal
    /\ chainStack = <<>>
    /\ chainTrace = <<>>

\* the server calls ServeHTTP on the handler Then returned
ChainServe ==
    /\ chainStack = <<>>
    /\ chainTrace = <<>>
    /\ chainStack' = <<Frame(chainH, FALSE)>>
    /\ UNCHANGED <<chainC, chainH, chainTrace>>
    /\ UNCHANGED <<regVars, reqVars, mwVars>>

\* a middleware's handler gets the request and calls next.ServeHTTP(w, r)
MiddlewareEnter ==
    /\ chainStack # <<>>
    /\ chainStack[Len(chainStack)].h.kind = "middleware"
    /\ ~chainStack[Len(chainStack)].called
    /\ chainTrace' = Append(chainTrace,
                            <<"enter", chainStack[Len(chainStack)].h.m>>)
    /\ chainStack' = Append([chainStack EXCEPT ![Len(chainStack)].called = TRUE],
                            Frame(chainStack[Len(chainStack)].h.next, FALSE))
    /\ UNCHANGED <<chainC, chainH>>
    /\ UNCHANGED <<regVars, reqVars, mwVars>>

\* the handler given to Then serves the request and returns
TerminalServe ==
    /\ chainStack # <<>>
    /\ chainStack[Len(chainStack)].h.kind = "handler"
    /\ chainTrace' = Append(chainTrace,
                            <<"serve", chainStack[Len(chainStack)].h.m>>)
    /\ chainStack' = SubSeq(chainStack, 1, Len(chainStack) - 1)
    /\ UNCHANGED <<chainC, chainH>>
    /\ UNCHANGED <<regVars, reqVars, mwVars>>

\* next.ServeHTTP has returned: the middleware's handler has control again
\* and returns
MiddlewareLeave ==
    /\ chainStack # <<>>
    /\ chainStack[Len(chainStack)].h.kind = "middleware"
    /\ chainStack[Len(chainStack)].called
    /\ chainTrace' = Append(chainTrace,
                            <<"leave", chainStack[Len(chainStack)].h.m>>)
    /\ chainStack' = SubSeq(chainStack, 1, Len(chainStack) - 1)
    /\ UNCHANGED <<chainC, chainH>>
    /\ UNCHANGED <<regVars, reqVars, mwVars>>

-----------------------------------------------------------------------------
(* Who gets control on a dispatched request *)

\* the middleware a handler built by Then enters before the handler given to
\* Then, from the outside in
RECURSIVE Entered(_)
Entered(h) == IF h.kind = "middleware" THEN <<h.m>> \o Entered(h.next) ELSE <<>>

\* a route of Handle: Chain(options.middleware).Then(handler)
FnTrace(h) == Entered(Then(h.mw, Terminal)) \o <<h.id>>

\* a group whose middleware is wrapped round each sub-route's handler
GroupTraceInside(h, urlPath, p, inner) ==
    IF Len(p) >= Len(urlPath) \/ inner.entry = 0 THEN <<>>
    ELSE Entered(Then(h.sub[inner.entry].Handler.mw, Terminal))
         \o Entered(Then(h.mw, Terminal)) \o <<h.sub[inner.entry].Handler.id>>

\* a group: http.StripPrefix(sPattern, Chain(sub.Middleware).Then(grp)); the
\* group's tree serves the stripped path p
GroupTrace(h, urlPath, p, inner) ==
    IF Len(p) >= Len(urlPath) THEN <<>>
    ELSE Entered(Then(h.mw, Terminal))
         \o (IF inner.entry = 0 THEN <<>> ELSE FnTrace(h.sub[inner.entry].Handler))

HandlerTrace(h, method, host, urlPath) ==
    IF h.kind = "fn" THEN FnTrace(h)
    ELSE GroupTrace(h, urlPath, TrimPrefix(urlPath, h.strip),
                    MuxServe(h.sub, method, host, TrimPrefix(urlPath, h.strip)))

\* the root tree behind the server's middleware: chain.Then(root)
RootTrace(m, method, host, urlPath, found) ==
    Entered(Then(m.chain, Terminal))
    \o (IF found.entry = 0 THEN <<>>
        ELSE HandlerTrace(m.root[found.entry].Handler, method, host, urlPath))

\* Server.ServeHTTP: the middleware and the handler that get control, in order
ServeTrace(m, method, host, urlPath) ==
    IF sPublic \in Range(m.top) /\ HasPrefix(urlPath, sPublic) THEN <<"static">>
    ELSE IF sRoot \notin Range(m.top) THEN <<>>
    ELSE RootTrace(m, method, host, urlPath, MuxServe(m.root, method, host, urlPath))

-----------------------------------------------------------------------------
(* The middleware of the package, each around a next handler *)

\* the number of requests in flight at once
MaxRequests == 2

\* the values uuid.New().String() can return
UUIDs == {"u1", "u2", "u3"}

\* a request on its way through a middleware: where it is, the handler behind
\* the middleware, r.URL.Path, the middleware's local requestID, the request
\* ID and the scoped logger's reqID in r.Context(), the X-Request-ID header,
\* what next saw, what the caller sees after ServeHTTP, the panic in flight
\* ("": none, "raised", "recovered"), the path before the middleware, the
\* route next served (0: none), the HandlerFunc adapters on its way (a
\* middleware written as a HandlerFunc, the route's HandlerFunc), the errSet
\* flag of every Context made for it, the adapter now running, the Error calls
\* made and how many of them answered, and the response
NewConn ==
    [pc |-> "start", next |-> "serve", path |-> Empty, requestID |-> "",
     ctxID |-> "", logID |-> "", hdrID |-> "",
     seen |-> [ctx |-> "", hdr |-> "", log |-> ""], after |-> "",
     panic |-> "", orig |-> Empty, entry |-> 0,
     layers |-> 1, ctxs |-> <<>>, depth |-> 0, errors |-> 0, dispatched |-> 0,
     resp |-> NewResponse]

\* no request is in a middleware
NoConns == conns = <<>> /\ issued = <<>>

\* the header value taken from whichever request got its ID last
HeaderIDShared(c, iss, p) == iss[Len(iss)]

\* w.Header().Set(RequestIDHeaderKey, requestID): the closure's own requestID
HeaderID(c, iss, p) == c[p].requestID

\* requestID := uuid.New().String(): an ID no earlier call returned
RidGenerate(p, id) ==
    /\ conns[p].pc = "start"
    /\ id \notin Range(issued)
    /\ conns' = [conns EXCEPT ![p].pc = "generated", ![p].requestID = id]
    /\ issued' = Append(issued, id)
    /\ UNCHANGED <<regVars, reqVars, chainVars>>

\* the two context.WithValue calls and *r = *r.WithContext(ctx)
RidContext(p) ==
    /\ conns[p].pc = "generated"
    /\ conns' = [conns EXCEPT ![p].pc = "contexted",
                              ![p].ctxID = conns[p].requestID,
                              ![p].logID = conns[p].requestID]
    /\ UNCHANGED issued
    /\ UNCHANGED <<regVars, reqVars, chainVars>>

\* w.Header().Set(RequestIDHeaderKey, requestID)
RidHeader(p) ==
    /\ conns[p].pc = "contexted"
    /\ conns' = [conns EXCEPT ![p].pc = "headed",
                              ![p].hdrID = HeaderID(conns, issued, p)]
    /\ UNCHANGED issued
    /\ UNCHANGED <<regVars, reqVars, chainVars>>

\* next.ServeHTTP(w, r): the handler reads the ID from the request context,
\* from the response header and from the scoped logger
RidNext(p) ==
    /\ conns[p].pc = "headed"
    /\ conns' = [conns EXCEPT ![p].pc = "served",
                              ![p].seen = [ctx |-> conns[p].ctxID,
                                           hdr |-> conns[p].hdrID,
                                           log |-> conns[p].logID]]
    /\ UNCHANGED issued
    /\ UNCHANGED <<regVars, reqVars, chainVars>>

\* the middleware returns: the caller reads the ID from its own *r, which the
\* middleware overwrote in place
RidReturn(p) ==
    /\ conns[p].pc = "served"
    /\ conns' = [conns EXCEPT ![p].pc = "done", ![p].after = conns[p].ctxID]
    /\ UNCHANGED issued
    /\ UNCHANGED <<regVars, reqVars, chainVars>>

\* what the handler behind RecoveryMiddleware does: answer and return, panic
\* at once, or write part of its answer and then panic
Handlers == {"serve", "panic", "writeThenPanic"}

\* next.ServeHTTP(w, r) is entered with the deferred recover in place
RecEnter(p) ==
    /\ conns[p].pc = "start"
    /\ conns' = [conns EXCEPT ![p].pc = "handling"]
    /\ UNCHANGED issued
    /\ UNCHANGED <<regVars, reqVars, chainVars>>

\* the handler writes to w
RecHandlerWrite(p) ==
    /\ conns[p].pc = "handling"
    /\ conns[p].next \in {"serve", "writeThenPanic"}
    /\ conns' = [conns EXCEPT
                     ![p].pc = "wrote",
                     ![p].resp = Write(@, [NoBody EXCEPT !.kind = "text",
                                                         !.status = StatusOK])]
    /\ UNCHANGED issued
    /\ UNCHANGED <<regVars, reqVars, chainVars>>

\* the handler panics
RecHandlerPanic(p) ==
    /\ \/ conns[p].pc = "handling" /\ conns[p].next = "panic"
       \/ conns[p].pc = "wrote" /\ conns[p].next = "writeThenPanic"
    /\ conns' = [conns EXCEPT ![p].pc = "unwinding", ![p].panic = "raised"]
    /\ UNCHANGED issued
    /\ UNCHANGED <<regVars, reqVars, chainVars>>

\* the deferred function: recover() returns the panic, http.Error answers
RecRecover(p) ==
    /\ conns[p].pc = "unwinding"
    /\ conns' = [conns EXCEPT
                     ![p].pc = "done",
                     ![p].panic = "recovered",
                     ![p].resp = HttpError(@, StatusInternalServerError)]
    /\ UNCHANGED issued
    /\ UNCHANGED <<regVars, reqVars, chainVars>>

\* the handler returns; the deferred function finds nothing to recover
RecReturn(p) ==
    /\ conns[p].pc = "wrote"
    /\ conns[p].next = "serve"
    /\ conns' = [conns EXCEPT ![p].pc = "done"]
    /\ UNCHANGED issued
    /\ UNCHANGED <<regVars, reqVars, chainVars>>

\* strings.TrimSuffix
TrimSuffix(s, p) == IF HasSuffix(s, p) THEN SubSeq(s, 1, Len(s) - Len(p)) ELSE s

\* the path RemoveTrailingSlashMiddleware hands to next
RemoveTrailingSlash(urlPath) ==
    IF urlPath # <<"/">> /\ HasSuffix(urlPath, <<"/">>)
    THEN TrimSuffix(urlPath, <<"/">>)
    ELSE urlPath

\* the routes behind RemoveTrailingSlashMiddleware, registered without a
\* trailing slash
SlashRoutes == <<[Match |-> <<"/", "p">>], [Match |-> <<"/", "p", "/", "q">>]>>

\* the request paths sent through RemoveTrailingSlashMiddleware
SlashPaths ==
    {<<"/">>, <<"/", "p">>, <<"/", "p", "/">>, <<"/", "p", "/", "/">>,
     <<"/", "/">>, <<"/", "p", "/", "q">>, <<"/", "p", "/", "q", "/">>,
     <<"/", "x", "/">>}

\* the middleware rewrites r.URL.Path
SlashTrim(p) ==
    /\ conns[p].pc = "start"
    /\ conns' = [conns EXCEPT ![p].pc = "trimmed",
                              ![p].path = RemoveTrailingSlash(@)]
    /\ UNCHANGED issued
    /\ UNCHANGED <<regVars, reqVars, chainVars>>

\* next.ServeHTTP(w, r): the route that matches the rewritten path
SlashNext(p) ==
    /\ conns[p].pc = "trimmed"
    /\ conns' = [conns EXCEPT
                     ![p].pc = "done",
                     ![p].entry = MuxFind(SlashRoutes, <<"G", "E", "T">>, Empty,
                                          conns[p].path)]
    /\ UNCHANGED issued
    /\ UNCHANGED <<regVars, reqVars, chainVars>>

\* the request the HandlerFunc adapters of this section serve
CtxReq == [NoReq EXCEPT !.json = TRUE]

\* HandlerFunc.ServeHTTP of the outermost adapter: ctx := NewContext(w, r)
HfServe(p) ==
    /\ conns[p].pc = "start"
    /\ conns' = [conns EXCEPT ![p].pc = "handling",
                              ![p].ctxs = Append(@, FALSE),
                              ![p].depth = 1]
    /\ UNCHANGED issued
    /\ UNCHANGED <<regVars, reqVars, chainVars>>

\* a middleware written as a HandlerFunc calls next.ServeHTTP(ctx.Response(),
\* r): next is a HandlerFunc too and makes a Context of its own
HfNext(p) ==
    /\ conns[p].pc = "handling"
    /\ conns[p].depth < conns[p].layers
    /\ Len(conns[p].ctxs) = conns[p].depth
    /\ conns' = [conns EXCEPT ![p].ctxs = Append(@, FALSE),
                              ![p].depth = @ + 1]
    /\ UNCHANGED issued
    /\ UNCHANGED <<regVars, reqVars, chainVars>>

\* ctx.Error(code, msg) on the Context of the adapter now running
HfErrorResult(c, code) ==
    [c EXCEPT !.errors = @ + 1,
              !.dispatched = IF c.ctxs[c.depth] THEN @ ELSE @ + 1,
              !.ctxs[c.depth] =
                  ErrorResult(c.resp, c.ctxs[c.depth], CtxReq, code, FALSE).errSet,
              !.resp =
                  ErrorResult(c.resp, c.ctxs[c.depth], CtxReq, code, FALSE).resp]

HfError(p, code) ==
    /\ conns[p].pc = "handling"
    /\ conns[p].errors < MaxOps
    /\ conns' = [conns EXCEPT ![p] = HfErrorResult(@, code)]
    /\ UNCHANGED issued
    /\ UNCHANGED <<regVars, reqVars, chainVars>>

\* the function of the adapter now running returns nil
HfReturn(p) ==
    /\ conns[p].pc = "handling"
    /\ conns' = [conns EXCEPT ![p].depth = @ - 1,
                              ![p].pc = IF conns[p].depth = 1 THEN "done" ELSE @]
    /\ UNCHANGED issued
    /\ UNCHANGED <<regVars, reqVars, chainVars>>

-----------------------------------------------------------------------------
(* Specifications *)

\* the server from Init to serving, no request in the adapter
InitRegistry == InitServer /\ req = NoReq /\ InitRequest /\ NoChain /\ NoConns

HandleAny == \E in \in HandleInputs : Handle(in)

GroupAny == \E in \in GroupInputs : Group(in)

RouteNameAny == \E q \in Queries : RouteNameCall(q.name, q.params)

DispatchAny == \E r \in Requests : Dispatch(r)

NextRegistry ==
    \/ HandleAny
    \/ GroupAny
    \/ Route
    \/ Run
    \/ RouteNameAny
    \/ DispatchAny

SpecRegistry == InitRegistry /\ [][NextRegistry]_vars

\* one request through HandlerFunc.ServeHTTP
InitServing ==
    InitServer /\ req \in ReqConfigs /\ InitRequest /\ NoChain /\ NoConns

\* the JSON responses a handler sends: a success, and errors with the Error
\* map nil, empty or filled and the ErrorType left out or given
JSONInputs ==
    { [status |-> StatusOK, error |-> "nil", errorType |-> ""],
      [status |-> StatusOK, error |-> "empty", errorType |-> ""],
      [status |-> StatusNotFound, error |-> "set", errorType |-> ""],
      [status |-> StatusInternalServerError, error |-> "set", errorType |-> ""],
      [status |-> StatusInternalServerError, error |-> "set", errorType |-> "validation"],
      [status |-> StatusNotFound, error |-> "nil", errorType |-> "validation"] }

CtxJSONAny == \E in \in JSONInputs : CtxJSON(in.status, in.error, in.errorType)

CtxRenderAny == \E notDone \in BOOLEAN : CtxRender(notDone)

CtxErrorAny ==
    \E code \in {StatusNotFound, StatusInternalServerError}, isErr \in BOOLEAN :
        CtxError(code, isErr)

NextServing ==
    \/ Start
    \/ CtxString
    \/ CtxStatus
    \/ CtxJSONAny
    \/ CtxRenderAny
    \/ CtxRedirect
    \/ CtxErrorAny
    \/ CtxTrigger
    \/ ReturnNil
    \/ ReturnErr
    \/ Panic

SpecRequest == InitServing /\ [][NextServing]_vars

\* one request through the handler of a Chain
InitChained == InitServer /\ req = NoReq /\ InitRequest /\ InitChain /\ NoConns

NextChain ==
    \/ ChainServe
    \/ MiddlewareEnter
    \/ TerminalServe
    \/ MiddlewareLeave

SpecChain == InitChained /\ [][NextChain]_vars

\* requests served at once through RequestIDMiddleware
InitRequestID ==
    /\ InitServer /\ req = NoReq /\ InitRequest /\ NoChain
    /\ conns = [p \in 1..MaxRequests |-> NewConn]
    /\ issued = <<>>

NextRequestID ==
    \/ \E p \in DOMAIN conns, id \in UUIDs : RidGenerate(p, id)
    \/ \E p \in DOMAIN conns : RidContext(p)
    \/ \E p \in DOMAIN conns : RidHeader(p)
    \/ \E p \in DOMAIN conns : RidNext(p)
    \/ \E p \in DOMAIN conns : RidReturn(p)

SpecRequestID == InitRequestID /\ [][NextRequestID]_vars

\* requests through RecoveryMiddleware, each around one of the handlers
InitRecovery ==
    /\ InitServer /\ req = NoReq /\ InitRequest /\ NoChain
    /\ conns \in [1..MaxRequests -> {[NewConn EXCEPT !.next = h] : h \in Handlers}]
    /\ issued = <<>>

NextRecovery ==
    \/ \E p \in DOMAIN conns : RecEnter(p)
    \/ \E p \in DOMAIN conns : RecHandlerWrite(p)
    \/ \E p \in DOMAIN conns : RecHandlerPanic(p)
    \/ \E p \in DOMAIN conns : RecRecover(p)
    \/ \E p \in DOMAIN conns : RecReturn(p)

SpecRecovery == InitRecovery /\ [][NextRecovery]_vars

\* requests through RemoveTrailingSlashMiddleware, one path each
InitTrailingSlash ==
    /\ InitServer /\ req = NoReq /\ InitRequest /\ NoChain
    /\ conns \in [1..MaxRequests ->
                    {[NewConn EXCEPT !.path = u, !.orig = u] : u \in SlashPaths}]
    /\ issued = <<>>

NextTrailingSlash ==
    \/ \E p \in DOMAIN conns : SlashTrim(p)
    \/ \E p \in DOMAIN conns : SlashNext(p)

SpecTrailingSlash == InitTrailingSlash /\ [][NextTrailingSlash]_vars

\* requests through a route's HandlerFunc, alone or behind a middleware that
\* is a HandlerFunc as well
InitContexts ==
    /\ InitServer /\ req = NoReq /\ InitRequest /\ NoChain
    /\ conns \in [1..MaxRequests -> {[NewConn EXCEPT !.layers = n] : n \in {1, 2}}]
    /\ issued = <<>>

NextContexts ==
    \/ \E p \in DOMAIN conns : HfServe(p)
    \/ \E p \in DOMAIN conns : HfNext(p)
    \/ \E p \in DOMAIN conns, code \in {StatusNotFound, StatusInternalServerError} :
           HfError(p, code)
    \/ \E p \in DOMAIN conns : HfReturn(p)

SpecContexts == InitContexts /\ [][NextContexts]_vars

\* a registry of routes with malformed patterns: registered, mounted, looked
\* up by name and dispatched to
NextMalformed ==
    \/ \E in \in MalformedInputs : Handle(in)
    \/ Route
    \/ \E in \in MalformedInputs : RouteNameCall(in.name, <<>>)
    \/ \E r \in Requests : Dispatch(r)

SpecMalformed == InitRegistry /\ [][NextMalformed]_vars

\* the registrations a builder callback makes on its sub-registry
InitBuilder == InitSub /\ req = NoReq /\ InitRequest /\ NoChain /\ NoConns

NextBuilder ==
    \/ \E in \in HandleInputs : Handle(in)
    \/ \E in \in GroupInputs : SubGroup(in)
    \/ \E q \in Queries : SubRouteName(q.name, q.params)

SpecBuilder == InitBuilder /\ [][NextBuilder]_vars

-----------------------------------------------------------------------------
(* Properties of the handler adapter and of Context.Error *)

\* the status the error path is meant to put on the wire: the one the
\* error-override callback chooses, 500 otherwise
ErrorStatus(rq) ==
    IF rq.errorFunc = "ctx404" THEN StatusNotFound ELSE StatusInternalServerError

\* C1: when the handler has returned an error, the whole request has seen
\* exactly one WriteHeader call, and it carries 500 or the status chosen by
\* the error-override callback, whatever the handler wrote before.
C1_OneStatusWriteOnError ==
    pc = "errored" => resp.wh = <<ErrorStatus(req)>>

\* C2: a first call of Context.Error calls WriteHeader exactly once, on the
\* JSON branch, the HX branch and the rendered-page branch alike.
C2_ErrorWritesHeaderOnce ==
    (rlast.errorCalls = 1 /\ ~rlast.wasSet) => rlast.wh = 1

\* C3: Context.Error is idempotent per request: once errSet is set, a further
\* call leaves the response as it is and returns nil.
C3_ErrorIdempotent ==
    [][(errSet /\ rlast'.errorCalls = 1)
           => (resp' = resp /\ errSet' /\ rlast'.wh = 0 /\ rlast'.ret = "nil")]_vars

\* a second Error call of the handler on a JSON request, after the first one
\* wrote the envelope
C3_Witness ==
    /\ rlast.op = "Error"
    /\ rlast.wasSet
    /\ rlast.ret = "nil"
    /\ req.json
    /\ resp.wh = <<StatusNotFound>>

\* C4: no panic raised while HandlerFunc.ServeHTTP runs (Context
\* construction, the handler, the error-override callback) propagates out of
\* it.
C4_NoPanicEscapes == pc # "escaped"

-----------------------------------------------------------------------------
(* Properties of the route registry *)

\* what a request for a registered pattern looks like
RequestFor(pattern) ==
    [method |-> IF MuxParse(pattern).method = Empty THEN mGET
                ELSE MuxParse(pattern).method,
     host   |-> MuxParse(pattern).host,
     path   |-> MuxParse(pattern).path]

\* a request for a pattern is answered with not-found
NotFoundFor(m, pattern) ==
    ServeResult(m, RequestFor(pattern).method, RequestFor(pattern).host,
                RequestFor(pattern).path).status = StatusNotFound

\* C5: once the routes are mounted, Handle and HandleFunc leave the route
\* list and the dispatch table as they are, and a request for a pattern that
\* was only registered late is answered with not-found.
C5_LateHandleIgnored ==
    /\ [][(routeMounted /\ last'.op = "Handle")
              => /\ routes' = routes
                 /\ mux' = mux
                 /\ last'.note = "dropped"
                 /\ (last'.pattern \notin Patterns(routes)
                        => NotFoundFor(mux', last'.pattern))]_vars
    /\ [](  (last.op = "Dispatch" /\ last.pattern = uLate /\ pLate \notin Patterns(routes))
          => last.status = StatusNotFound)

\* "/l" is registered after the mount of a registry that holds other routes
C5_Witness ==
    /\ routeMounted
    /\ last.op = "Handle"
    /\ last.wasMounted
    /\ last.note = "dropped"
    /\ last.pattern = pLate
    /\ routes # <<>>
    /\ pLate \notin Patterns(routes)

\* C6: Route is idempotent: a call on mounted routes returns nil and changes
\* neither the route list, the name index, the mounted flag nor the mux.
C6_RouteIdempotent ==
    [][(routeMounted /\ last'.op = "Route")
           => /\ last'.note = "nil"
              /\ UNCHANGED <<routes, routeNames, routeMounted, mux, serving, crashed>>]_vars

\* a second Route on a registry with routes and names
C6_Witness ==
    /\ last.op = "Route"
    /\ last.wasMounted
    /\ last.note = "nil"
    /\ routes # <<>>
    /\ routeNames # <<>>

\* C7: the mounted flag is false from construction until the first Route
\* (called directly or by Run), and once true it stays true.
C7_MountedMonotone ==
    /\ [](last.op = "none" => ~routeMounted)
    /\ [][/\ routeMounted => routeMounted'
          /\ (~routeMounted /\ routeMounted') => last'.op \in {"Route", "Run"}
          /\ (~routeMounted /\ last'.op \notin {"Route", "Run"}) => ~routeMounted']_vars

\* registration goes on after the mount and the flag is still set
C7_Witness ==
    /\ routeMounted
    /\ last.wasMounted
    /\ last.op = "Group"
    /\ routes # <<>>

\* the routes registered under a name, compared as RouteName compares
Named(name) ==
    {i \in DOMAIN routes : routes[i].Name # Empty /\ ToLower(routes[i].Name) = ToLower(name)}

\* C8: after the mount, RouteName(name) without params returns exactly the
\* path component of the pattern registered under that name: neither the
\* method token nor the host is part of it.
C8_RouteNameIsPath ==
    (last.op = "RouteName" /\ last.wasMounted /\ last.params = <<>>)
        => \A i \in Named(last.name) :
               Named(last.name) = {i} => last.ret = PatternParts(routes[i].Match).path

\* the groups registered before the mount whose sub-route answers to a name
GroupsNamed(name) ==
    {g \in GroupInputs :
        /\ g.name # Empty
        /\ \E i \in DOMAIN routes :
               /\ routes[i].Handler.kind = "group"
               /\ routes[i].Match = WithSlash(g.pattern)
               /\ routes[i].Handler.sub = g.sub
        /\ \E k \in DOMAIN g.sub :
               /\ g.sub[k].Name # Empty
               /\ ToLower(g.name \o <<"/">> \o g.sub[k].Name) = ToLower(name)}

\* C9: for a group with prefix P and name G whose sub-route has pattern S
\* (with or without a method token) and name N, RouteName("G/N", params) is
\* P joined with the path component of S, with the params substituted.
C9_GroupRouteName ==
    last.op = "RouteName"
        => \A g \in GroupsNamed(last.name) :
               GroupsNamed(last.name) = {g}
                   => \A k \in DOMAIN g.sub :
                          ToLower(g.name \o <<"/">> \o g.sub[k].Name) = ToLower(last.name)
                              => last.ret =
                                     Substitute(PathJoin(g.pattern,
                                                         PatternParts(g.sub[k].Match).path),
                                                Balanced(last.params))

\* two characters that differ at most in case
SameFoldChar(a, b) ==
    \/ a = b
    \/ \E i \in DOMAIN UpperLetters :
           {a, b} = {UpperLetters[i], LowerLetters[i]}

\* two names that differ at most in the case of their letters
SameFold(s, u) ==
    Len(s) = Len(u) /\ \A i \in 1..Len(s) : SameFoldChar(s[i], u[i])

\* C10: the lookup of RouteName is case-insensitive: a name that differs from
\* an indexed name only in case yields that entry, and after the mount every
\* spelling of the name of a named route finds an entry.
C10_LookupIgnoresCase ==
    last.op = "RouteName"
        => /\ \A key \in DOMAIN routeNames :
                  SameFold(key, last.name)
                      => last.ret = Substitute(routeNames[key], Balanced(last.params))
           /\ \A i \in DOMAIN routes :
                  (/\ last.wasMounted
                   /\ routes[i].Name # Empty
                   /\ PatternParts(routes[i].Match) # NoParts
                   /\ SameFold(routes[i].Name, last.name))
                      => \E key \in DOMAIN routeNames : SameFold(key, last.name)

\* "uP" is registered and "UP" is looked up with id = 42
C10_Witness ==
    /\ last.op = "RouteName"
    /\ last.wasMounted
    /\ last.name = qUserProfileUp
    /\ \E i \in DOMAIN routes : routes[i].Name = nUserProfile
    /\ last.ret = uProfile

\* the route after the first n key/value pairs were applied, one replace-all
\* of "{key}" by value per pair, in the order given
RECURSIVE PairsApplied(_, _, _)
PairsApplied(route, params, n) ==
    IF n = 0 THEN route
    ELSE ReplaceAll(PairsApplied(route, params, n - 1),
                    <<"{">> \o params[2 * n - 1] \o <<"}">>, params[2 * n])

\* s occurs in t
Contains(t, s) ==
    \E i \in 1..(Len(t) - Len(s) + 1) : SubSeq(t, i, i + Len(s) - 1) = s

\* C11: for a registered name and an odd-length params list RouteName does
\* not fail: it returns what it returns for the list with one empty string
\* appended, so the placeholder of the last param is replaced by nothing.
C11_OddParamsPadded ==
    (/\ last.op = "RouteName"
     /\ Len(last.params) % 2 = 1
     /\ ToLower(last.name) \in DOMAIN routeNames)
        => /\ crashed = ""
           /\ last.ret = PairsApplied(routeNames[ToLower(last.name)],
                                      Append(last.params, Empty),
                                      (Len(last.params) + 1) \div 2)
           /\ ~Contains(last.ret,
                        <<"{">> \o last.params[Len(last.params)] \o <<"}">>)

\* "UP" is looked up with the single param id, and {id} is replaced by nothing
C11_Witness ==
    /\ last.op = "RouteName"
    /\ last.name = qUserProfileUp
    /\ last.params = <<kId>>
    /\ ToLower(last.name) \in DOMAIN routeNames
    /\ Contains(routeNames[ToLower(last.name)], <<"{">> \o kId \o <<"}">>)
    /\ last.ret = <<"/", "u", "/", "/", "p">>

\* the key/value pairs of a params list, a missing last value being empty
Padded(params) ==
    IF Len(params) % 2 = 1 THEN Append(params, Empty) ELSE params

\* the keys of a params list
ParamKeys(params) ==
    {params[i] : i \in {j \in DOMAIN params : j % 2 = 1}}

\* the keys of the placeholders "{key}" of a path
PlaceholderKeys(route) ==
    {SubSeq(route, i + 1, j - 1) :
        <<i, j>> \in {ij \in (DOMAIN route) \X (DOMAIN route) :
                         /\ ij[1] < ij[2]
                         /\ route[ij[1]] = "{"
                         /\ route[ij[2]] = "}"
                         /\ \A m \in (ij[1] + 1)..(ij[2] - 1) :
                                route[m] \notin {"{", "}"}}}

\* C12: for a registered name RouteName returns the stored path after one
\* replace-all of "{key}" by value per pair, in the order given, so that a
\* later pair also acts on text an earlier value brought in; a placeholder
\* whose key is not among the params stays; the stored path is not changed.
C12_PairsInOrder ==
    /\ []((last.op = "RouteName" /\ ToLower(last.name) \in DOMAIN routeNames)
            => /\ last.ret = PairsApplied(routeNames[ToLower(last.name)],
                                          Padded(last.params),
                                          Len(Padded(last.params)) \div 2)
               /\ \A key \in PlaceholderKeys(routeNames[ToLower(last.name)]) :
                      key \notin ParamKeys(last.params)
                          => Contains(last.ret, <<"{">> \o key \o <<"}">>))
    /\ [][last'.op = "RouteName" => routeNames' = routeNames]_vars

\* "/u/{id}/p" with id = {k}, then k = 7: the second pair acts on the value
\* of the first
C12_Witness ==
    /\ last.op = "RouteName"
    /\ last.params = <<kId, vPlaceholder, kItemId, v1001>>
    /\ ToLower(last.name) \in DOMAIN routeNames
    /\ routeNames[ToLower(last.name)] = <<"/", "u", "/", "{", "i", "d", "}", "/", "p">>
    /\ last.ret = <<"/", "u", "/", "7", "/", "p">>

\* a sub-route of the list is named
HasNamedRoutes(sub) == \E k \in DOMAIN sub : sub[k].Name # Empty

\* the group's own mux refuses one of the sub-routes: its pattern does not
\* parse, or an earlier sub-route has the same pattern
SubPatternRefused(sub) ==
    \E k \in DOMAIN sub :
        \/ ~MuxParse(sub[k].Match).valid
        \/ \E j \in 1..(k - 1) : sub[j].Match = sub[k].Match

\* C13 as stated: Group panics if and only if a sub-route is named while the
\* group name is empty; a group with no named sub-routes and an empty name is
\* accepted.
C13_GroupPanicsIffUnnamed ==
    last.op = "Group"
        => (last.note = "panic" <=> (HasNamedRoutes(last.sub) /\ last.name = Empty))

\* C13 as amended: Group panics if a sub-route is named while the group name
\* is empty, and otherwise only if the group's mux refuses a sub-route's
\* pattern; a group with no named sub-routes, an empty name and patterns the
\* mux takes is accepted and registered as any late or early Handle is.
C13_GroupPanics ==
    last.op = "Group"
        => /\ last.note = "panic"
                 <=> \/ HasNamedRoutes(last.sub) /\ last.name = Empty
                     \/ SubPatternRefused(last.sub)
           /\ last.note = "panic" <=> crashed = "Group"
           /\ (last.note # "panic" /\ ~last.wasMounted)
                 => /\ routes # <<>>
                    /\ routes[Len(routes)].Match = WithSlash(last.pattern)
                    /\ routes[Len(routes)].Handler.sub = last.sub

\* the group "/g/" without a name and with the one unnamed sub-route "/p" is
\* registered
C13_Witness ==
    /\ last.op = "Group"
    /\ last.name = Empty
    /\ last.sub # <<>>
    /\ ~HasNamedRoutes(last.sub)
    /\ last.note = "added"
    /\ crashed = ""
    /\ routes[Len(routes)].Match = gApi

\* m0(m1(...mN(h))) written from the outside in
RECURSIVE Nested(_, _)
Nested(c, i) ==
    IF i > Len(c) THEN Terminal
    ELSE [kind |-> "middleware", m |-> c[i], next |-> Nested(c, i + 1)]

\* who gets control on a request: m0 .. mN, then h, then mN .. m0
ControlOrder(c) ==
    [i \in 1..(2 * Len(c) + 1) |->
        IF i <= Len(c) THEN <<"enter", c[i]>>
        ELSE IF i = Len(c) + 1 THEN <<"serve", "h">>
        ELSE <<"leave", c[2 * Len(c) + 2 - i]>>]

\* the request has gone through the handler and back
ChainDone == chainStack = <<>> /\ chainTrace # <<>>

\* C14: Chain.Then yields m0(m1(...mN(h))): on a request the middleware are
\* entered in the order m0 .. mN, then h serves, and they have control again
\* in the reverse order; the empty chain yields h itself.
C14_ThenOrder ==
    /\ chainH = Nested(chainC, 1)
    /\ (chainC = <<>> => chainH = Terminal)
    /\ Len(chainTrace) <= Len(ControlOrder(chainC))
    /\ chainTrace = SubSeq(ControlOrder(chainC), 1, Len(chainTrace))
    /\ (ChainDone => chainTrace = ControlOrder(chainC))

\* a request has gone through a chain of three different middleware
C14_Witness ==
    /\ ChainDone
    /\ Len(chainC) = 3
    /\ Cardinality({chainC[i] : i \in 1..3}) = 3
    /\ chainTrace[1] = <<"enter", chainC[1]>>
    /\ chainTrace[4] = <<"serve", "h">>
    /\ chainTrace[7] = <<"leave", chainC[1]>>

\* C15: when the handler returns a non-nil error, the adapter invokes the
\* error-override callback with it if one is configured; if none is
\* configured it delegates to the Context's Error with the error and 500.
C15_ErrorPathDelegates ==
    rlast.op = "ReturnErr"
        => IF req.errorFunc # "none"
           THEN rlast.funcCalls >= 1
           ELSE /\ rlast.funcCalls = 0
                /\ rlast.errorCalls = 1
                /\ errSet

\* C16: when the handler panics, the deferred guard invokes the configured
\* error-override callback exactly once; without a callback it writes a
\* generic 500 response itself; in both cases ServeHTTP returns, so the
\* request ends with a response.
C16_PanicAnswered ==
    rlast.op = "Panic"
        => /\ req.errorFunc # "none" => rlast.funcCalls = 1
           /\ req.errorFunc = "none"
                 => /\ rlast.funcCalls = 0
                    /\ rlast.ret = "http.Error"
                    /\ resp.wh[Len(resp.wh)] = StatusInternalServerError
                    /\ resp.body[Len(resp.body)].kind = "text"
           /\ pc = "panicked"

\* C17: for a request whose context carries no server, the adapter returns
\* (it does not panic) without having called the user handler and without a
\* response body.
C17_NoServerAborts ==
    (~req.server /\ pc # "idle")
        => /\ pc \notin {"escaped", "running", "completed", "errored", "panicked"}
           /\ nops = 0
           /\ resp.body = <<>>

\* C18: per request the adapter takes exactly one of the outcomes Completed,
\* Errored and Panicked: the error path and the panic path are never both
\* taken, and the error-override callback runs at most once.
C18_OneOutcome ==
    rlast.op \in {"ReturnNil", "ReturnErr", "Panic"}
        => /\ pc \in {"completed", "errored", "panicked"}
           /\ rlast.paths # {"error", "panic"}
           /\ rlast.funcCalls <= 1

\* C19: for a JSON-declared request whose handler returns a non-nil error,
\* the body the adapter answers with is the JSON envelope with Status 500
\* and ErrorType "server", never HTML or plain text. Stated for the server
\* without an error-override callback and for the one whose callback hands the
\* error to the Context's Error with 500.
C19_JSONErrorEnvelope ==
    [][(req.json /\ req.errorFunc \in {"none", "ctx500"} /\ rlast'.op = "ReturnErr")
           => /\ Len(resp'.body) = Len(resp.body) + 1
              /\ resp'.body[Len(resp'.body)] =
                     [kind |-> "json", status |-> StatusInternalServerError,
                      errorType |-> "server"]]_vars

\* C20: a first call of Context.Error returns the original error when the
\* message is an error value and nil when it is not, on each of the JSON, HX
\* and rendered-page branches that ends without a render failure.
C20_ErrorReturnsMessage ==
    (/\ rlast.op = "Error"
     /\ ~rlast.wasSet
     /\ rlast.ret # "failed to render error page")
        => rlast.ret = IF rlast.msgIsError THEN "msg" ELSE "nil"

\* C21: when the render of the error page fails inside Context.Error (the
\* template manager fails or none is configured), Error still writes a status
\* line before it returns the wrapped render error.
C21_RenderFailureWritesStatus ==
    (/\ rlast.op = "Error"
     /\ ~rlast.wasSet
     /\ rlast.ret = "failed to render error page")
        => /\ rlast.wh >= 1
           /\ resp.committed # 0

C23_FailedRenderWritesNothing ==
    [][(rlast'.op = "Render" /\ req.tpl = "fail")
           => /\ rlast'.ret = "renderError"
              /\ resp' = resp]_vars

\* Render failed after the handler had already written a response
C23_Witness ==
    /\ rlast.op = "Render"
    /\ req.tpl = "fail"
    /\ rlast.ret = "renderError"
    /\ nops = 2
    /\ resp.body # <<>>

\* what a successful Render with NotDone unset does to the head of the
\* response: Content-Type text/html unless one is set, then the status
RenderedHead(before, after, status) ==
    /\ after.wh = Append(before.wh, status)
    /\ after.ctype = IF before.ctype = "" THEN "text/html" ELSE before.ctype
    /\ Len(after.body) = Len(before.body) + 1
    /\ after.body[Len(after.body)].kind = "html"

\* C24 as stated: a successful Render with notDone set makes no status-line
\* write and sets no Content-Type, and a status that was undecided before is
\* still undecided after Render returns; with notDone unset Render writes
\* Content-Type text/html and the given status before the body.
C24_NotDoneLeavesStatusOpen ==
    [][(rlast'.op = "Render" /\ rlast'.ret = "nil")
           => IF rlast'.notDone
              THEN /\ resp'.wh = resp.wh
                   /\ resp'.ctype = resp.ctype
                   /\ resp.committed = 0 => resp'.committed = 0
              ELSE RenderedHead(resp, resp', rlast'.code)]_vars

\* C24 as amended: a successful Render with notDone set makes no WriteHeader
\* call and sets no Content-Type, but it copies the page to the response, and
\* that write commits status 200 when no status was written before; with
\* notDone unset Render writes Content-Type text/html and the given status
\* before the body.
C24_NotDoneSkipsHead ==
    [][(rlast'.op = "Render" /\ rlast'.ret = "nil")
           => IF rlast'.notDone
              THEN /\ resp'.wh = resp.wh
                   /\ resp'.ctype = resp.ctype
                   /\ Len(resp'.body) = Len(resp.body) + 1
                   /\ resp'.committed = IF resp.committed = 0 THEN StatusOK
                                        ELSE resp.committed
              ELSE RenderedHead(resp, resp', rlast'.code)]_vars

\* Render with notDone set was the first write of the request
C24_Witness ==
    /\ rlast.op = "Render"
    /\ rlast.notDone
    /\ rlast.ret = "nil"
    /\ resp.wh = <<>>
    /\ resp.ctype = ""
    /\ Len(resp.body) = 1
    /\ resp.committed = StatusOK

\* C25: Context.Redirect gives an HX request the HX redirect signal and no
\* HTTP status; every other request gets an HTTP 303 with the Location; one
\* call never does both.
C25_RedirectOneWay ==
    [][rlast'.op = "Redirect"
           => /\ rlast'.ret = "nil"
              /\ IF req.hx
                 THEN /\ resp'.hxRedirect
                      /\ resp'.wh = resp.wh
                      /\ resp'.committed = resp.committed
                      /\ resp'.location = resp.location
                      /\ resp'.body = resp.body
                 ELSE /\ resp'.wh = Append(resp.wh, StatusSeeOther)
                      /\ resp'.location
                      /\ resp'.hxRedirect = resp.hxRedirect]_vars

\* an HX request was redirected and no status is on the wire
C25_Witness ==
    /\ rlast.op = "Redirect"
    /\ req.hx
    /\ resp.hxRedirect
    /\ ~resp.location
    /\ resp.wh = <<>>
    /\ resp.committed = 0

\* C26: Context.JSON derives the envelope's errorType from the status exactly
\* when the error map is non-empty and errorType is unset (500 and above give
\* "server", anything else "application"); an errorType the caller gave is
\* kept, and an envelope without an error keeps errorType unset.
C26_ErrorTypeDerived ==
    rlast.op = "JSON"
        => resp.body[Len(resp.body)].errorType =
               IF rlast.error = "set" /\ rlast.errorType = ""
               THEN IF rlast.code >= StatusInternalServerError THEN "server"
                    ELSE "application"
               ELSE rlast.errorType

\* the requests that have reached the handler behind RequestIDMiddleware
Served == {p \in DOMAIN conns : conns[p].pc \in {"served", "done"}}

\* C27: of the requests served at once through RequestIDMiddleware, each
\* has a non-empty request ID that is the same in its context (as the handler
\* sees it and as the caller sees it afterwards), in its X-Request-ID header
\* and in its scoped logger; no two requests have the same ID.
C27_RequestIDPerRequest ==
    /\ \A p \in Served :
           /\ conns[p].seen.ctx # ""
           /\ conns[p].seen.hdr = conns[p].seen.ctx
           /\ conns[p].seen.log = conns[p].seen.ctx
           /\ conns[p].hdrID = conns[p].seen.ctx
           /\ conns[p].pc = "done" => conns[p].after = conns[p].seen.ctx
    /\ \A p, q \in Served : p # q => conns[p].seen.ctx # conns[q].seen.ctx

\* two requests went through the middleware, the second getting its ID
\* before the first had set its header
C27_Witness ==
    /\ \A p \in DOMAIN conns : conns[p].pc = "done"
    /\ Len(issued) = 2
    /\ conns[1].hdrID = issued[1]
    /\ conns[2].hdrID = issued[2]
    /\ conns[1].after # conns[2].after

\* C28: a request whose handler panics behind RecoveryMiddleware is answered
\* with status 500 and its panic is recovered, not passed on; a request on
\* the same server whose handler does not panic is answered as the handler
\* answered, whatever happened to the other requests.
C28_PanicAnswered500 ==
    \A p \in DOMAIN conns :
        conns[p].pc = "done" =>
            IF conns[p].next \in {"panic", "writeThenPanic"}
            THEN /\ conns[p].panic = "recovered"
                 /\ conns[p].resp.committed = StatusInternalServerError
            ELSE /\ conns[p].panic = ""
                 /\ conns[p].resp.committed = StatusOK
                 /\ conns[p].resp.wh = <<>>

\* the path without any of its trailing slashes
RECURSIVE TrimRightSlash(_)
TrimRightSlash(s) ==
    IF HasSuffix(s, <<"/">>) THEN TrimRightSlash(SubSeq(s, 1, Len(s) - 1)) ELSE s

\* C29: for every request path other than "/", after
\* RemoveTrailingSlashMiddleware the path does not end in "/", it is
\* unchanged if it had no trailing slash, and a route registered as the path
\* without its trailing slash is the one that serves the request.
C29_TrailingSlashRemoved ==
    \A p \in DOMAIN conns :
        (conns[p].orig # <<"/">> /\ conns[p].pc \in {"trimmed", "done"}) =>
            /\ ~HasSuffix(conns[p].path, <<"/">>)
            /\ ~HasSuffix(conns[p].orig, <<"/">>) => conns[p].path = conns[p].orig
            /\ \A i \in DOMAIN SlashRoutes :
                   (/\ conns[p].pc = "done"
                    /\ SlashRoutes[i].Match = TrimRightSlash(conns[p].orig))
                       => conns[p].entry = i

\* C30: Route() before Run() is optional: the server never serves with the
\* mounted flag false, Run never returns ErrRoutesNotMounted, and a Run that
\* returns no error has mounted the routes itself if they were not mounted:
\* the flag is set, the tree has "/public/" and "/", and every registered
\* route is in the root tree.
C30_RunMountsRoutes ==
    /\ serving => routeMounted
    /\ last.op = "Run" =>
           /\ last.note # "ErrRoutesNotMounted"
           /\ (last.note = "nil" /\ ~last.wasMounted) =>
                  /\ serving
                  /\ routeMounted
                  /\ Len(mux.top) = 2
                  /\ Len(mux.root) = Len(routes)

\* Run was called on a server with routes and without a Route() before it,
\* and the server is serving
C30_Witness ==
    /\ last.op = "Run"
    /\ ~last.wasMounted
    /\ last.note = "nil"
    /\ routes # <<>>
    /\ serving

\* C31: once Route() has returned, the registry is read-only: no call of
\* Handle, HandleFunc, Group, Route or RouteName changes the route list, the
\* name index or the mounted flag.
C31_ReadOnlyAfterMount ==
    [][routeMounted => /\ routes' = routes
                       /\ routeNames' = routeNames
                       /\ routeMounted' = routeMounted]_vars

\* C32: exactly one Context is made per inbound request, so all Error calls
\* of the request consult one errSet flag and at most one of them answers;
\* this holds also behind a middleware that is itself a HandlerFunc.
C32_OneContextPerRequest ==
    \A p \in DOMAIN conns :
        conns[p].pc # "start" =>
            /\ Len(conns[p].ctxs) = 1
            /\ conns[p].dispatched <= 1
            /\ Len(conns[p].resp.wh) <= 1

\* C33: a request answered by a route of a group passes, in this order, the
\* root middleware in list order, the group's middleware in list order, the
\* route's own WithMiddleware chain in list order and then the route's
\* handler; the route is one whose pattern matches the request path with the
\* group prefix stripped.
C33_GroupControlOrder ==
    last.op = "Dispatch" =>
        \A i \in DOMAIN mux.root :
            mux.root[i].Handler.kind = "group" =>
                \A k \in DOMAIN mux.root[i].Handler.sub :
                    last.handler = mux.root[i].Handler.sub[k].Handler.id =>
                        /\ ServeTrace(mux, last.name, last.params[1], last.pattern)
                               = ServerMiddleware
                                 \o mux.root[i].Handler.mw
                                 \o mux.root[i].Handler.sub[k].Handler.mw
                                 \o <<last.handler>>
                        /\ Matches(mux.root[i].Handler.sub[k].Match,
                                   last.name, last.params[1],
                                   TrimPrefix(last.pattern,
                                              SubSeq(mux.root[i].Match, 1,
                                                     Len(mux.root[i].Match) - 1)))

\* GET /c/i/7 was answered by the route "GET /i/{k}" of the group "/c", which
\* has two middleware of its own inside a group with two middleware
C33_Witness ==
    /\ last.op = "Dispatch"
    /\ last.handler = "g2"
    /\ last.pattern = uItem
    /\ ServeTrace(mux, last.name, last.params[1], last.pattern)
           = <<"recovery", "requestID", "audit", "gzip", "auth", "csrf", "g2">>

\* no two routes of the list rs carry the same non-empty name, letter case
\* aside
UniqueNames(rs) ==
    \A i, j \in DOMAIN rs :
        (i # j /\ rs[i].Name # Empty) => ToLower(rs[i].Name) # ToLower(rs[j].Name)

\* C34: in every registry state the routes of one registration scope, the
\* root or one group, have pairwise different non-empty names compared
\* without regard to case, and no entry of the name index stands for a route
\* registered without a name.
C34_NamesUniquePerScope ==
    /\ UniqueNames(routes)
    /\ \A i \in DOMAIN routes :
           routes[i].Handler.kind = "group" => UniqueNames(routes[i].Handler.sub)
    /\ Empty \notin DOMAIN routeNames
    /\ \A g \in GroupInputs : ToLower(g.name \o <<"/">>) \notin DOMAIN routeNames

\* the named routes of the list whose pattern PatternParts cannot split
Malformed ==
    {i \in DOMAIN routes :
        routes[i].Name # Empty /\ PatternParts(routes[i].Match) = NoParts}

\* no two routes of the list have the same pattern
DistinctPatterns ==
    \A i, j \in DOMAIN routes : i # j => routes[i].Match # routes[j].Match

\* the index has no entry for a malformed named route and RouteName of its
\* name returns the empty string
MalformedNotIndexed ==
    \A i \in Malformed :
        /\ ToLower(routes[i].Name) \notin DOMAIN routeNames
        /\ (last.op = "RouteName" /\ ToLower(last.name) = ToLower(routes[i].Name))
               => last.ret = Empty

\* C35 as stated: a named route with a malformed pattern gets no index entry
\* and RouteName of it returns the empty string, while the route stays in the
\* route list and is mounted for dispatch: Route() on a registry of routes
\* with distinct patterns returns nil and puts the route in the root tree.
C35_MalformedStillMounted ==
    /\ MalformedNotIndexed
    /\ (last.op = "Route" /\ DistinctPatterns)
           => \A i \in Malformed :
                  /\ last.note = "nil"
                  /\ routeMounted
                  /\ routes[i] \in Range(mux.root)

\* C35 as amended: a named route with a malformed pattern gets no index entry
\* and RouteName of it returns the empty string; it stays in the route list;
\* Route() mounts it for dispatch if ServeMux can parse its pattern, and
\* panics, leaving the routes unmounted, if ServeMux cannot.
C35_MalformedMountedIfParsed ==
    /\ MalformedNotIndexed
    /\ (last.op = "Route" /\ DistinctPatterns)
           => /\ last.note = "panic"
                  <=> \E j \in DOMAIN routes : ~MuxParse(routes[j].Match).valid
              /\ last.note = "panic" => ~routeMounted /\ crashed = "Route"
              /\ last.note = "nil"
                  => /\ routeMounted
                     /\ \A i \in Malformed : routes[i] \in Range(mux.root)
    /\ (last.op = "Dispatch" /\ routeMounted /\ last.pattern = uLate)
           => \A i \in Malformed :
                  Matches(routes[i].Match, last.name, last.params[1], last.pattern)
                      => last.handler = routes[i].Handler.id

\* the route " /l" named "sp" is mounted, has no index entry, and answered
\* GET /l
C35_Witness ==
    /\ Malformed # {}
    /\ routeMounted
    /\ routeNames # <<>>
    /\ last.op = "Dispatch"
    /\ last.pattern = uLate
    /\ last.handler = "m1"

\* C36: when Group panics because a sub-route is named while the group name
\* is empty, the parent registry is as it was before the call: the same route
\* list and the same name index.
C36_RejectedGroupLeavesRegistry ==
    [][(last'.op = "Group" /\ last'.note = "panic"
            /\ HasNamedRoutes(last'.sub) /\ last'.name = Empty)
           => (routes' = routes /\ routeNames' = routeNames)]_vars

\* C37: with request logging on, the status the ResponseWriter wrapper holds
\* when the request is over, which the server logs, is the status that went
\* to the client: the first WriteHeader call of the request, or 200 if there
\* was none.
C37_LoggedStatusIsCommitted ==
    pc \in {"completed", "errored", "panicked"} =>
        resp.statusCode = (IF resp.committed = 0 THEN StatusOK ELSE resp.committed)

\* C38: a name given to a root route with Handle or HandleFunc enters the
\* name index when Route() runs: before the mount RouteName returns the empty
\* string for it, after the mount it resolves; a group-qualified name
\* resolves as soon as Group has returned, before the mount and after it.
C38_RootNamesAtMount ==
    last.op = "RouteName" =>
        /\ (~last.wasMounted /\ Named(last.name) # {} /\ GroupsNamed(last.name) = {})
               => last.ret = Empty
        /\ (last.wasMounted /\ Named(last.name) # {}) => last.ret # Empty
        /\ GroupsNamed(last.name) # {} => last.ret # Empty

\* before the mount, with a named root route and a named group registered,
\* RouteName resolved the group's name
C38_Witness ==
    /\ last.op = "RouteName"
    /\ ~last.wasMounted
    /\ GroupsNamed(last.name) # {}
    /\ last.ret # Empty
    /\ \E i \in DOMAIN routes : routes[i].Handler.kind = "fn" /\ routes[i].Name # Empty

\* C39: on the sub-registry of a Group builder callback no registration call
\* of a well-formed configuration panics: a nested Group whose name is not
\* empty, or whose sub-routes are unnamed, and whose sub-route patterns its
\* tree accepts, completes and its tree is a route of the sub-registry, which
\* the outer Group mounts.
C39_NestedGroupCompletes ==
    /\ last.op = "Handle" => crashed = ""
    /\ (last.op = "Group"
            /\ (last.name # Empty \/ ~HasNamedRoutes(last.sub))
            /\ ~SubPatternRefused(last.sub))
           => /\ last.note = "added"
              /\ crashed = ""
              /\ routes # <<>>
              /\ routes[Len(routes)].Match = WithSlash(last.pattern)
              /\ routes[Len(routes)].Handler.sub = last.sub

=============================================================================
